---- MODULE Spec2Model ----
(***************************************************************************)
(* Verification model of the Skill-first diagnosis pipeline of             *)
(* conversation-insights: the retry wrappers and the session worker pool   *)
(* of skill_runtime.py, the chunked incremental inference, the diagnose    *)
(* commands of diagnose_helper.py and the report synchronizer of           *)
(* _sync_analysis_reports_core.py.                                         *)
(*                                                                         *)
(* Texts are modelled as sequences of words; a substring test of the code  *)
(* is a contiguous-subsequence test on lower-cased words.                  *)
(***************************************************************************)
EXTENDS Integers, Sequences, FiniteSets, TLC

VARIABLES call, api, incr, sync, sidecars, incrementals, jobs, now, last, answer,
          pipe, val, dig, wr

\* the files, the clock and the provider that the diagnose commands work
\* with, the pipeline run, the validator call, the digest being built and
\* the file write in progress
cmdVars == <<sidecars, incrementals, jobs, now, last, answer, pipe, val, dig, wr>>

vars == <<call, api, incr, sync, sidecars, incrementals, jobs, now, last, answer,
          pipe, val, dig, wr>>

None == "none"

\* the value of a variable that the running specification does not use
Idle == [pc |-> "idle"]

CmdIdle ==
    /\ sidecars = Idle
    /\ incrementals = Idle
    /\ jobs = Idle
    /\ now = 0
    /\ last = Idle
    /\ answer = Idle
    /\ pipe = Idle
    /\ val = Idle
    /\ dig = Idle
    /\ wr = Idle

----------------------------------------------------------------------------
(* Text helpers: str.lower() and the `in` substring test.                  *)

\* str.lower() on one word
LowerWord(w) ==
    CASE w = "Command" -> "command"
      [] w = "JSON" -> "json"
      [] w = "Rate" -> "rate"
      [] w = "HTTP" -> "http"
      [] w = "Network" -> "network"
      [] w = "TBD" -> "tbd"
      [] w = "Placeholder" -> "placeholder"
      [] w = "#T1" -> "#t1"
      [] OTHER -> w

\* str.lower() on a text
Lower(text) == [i \in 1..Len(text) |-> LowerWord(text[i])]

\* `token in content`: token occurs as a contiguous run of words
Contains(content, token) ==
    \E i \in 0..(Len(content) - Len(token)) :
        \A j \in 1..Len(token) : content[i + j] = token[j]

----------------------------------------------------------------------------
(* Retry wrappers of skill_runtime.py.                                     *)

Providers == {"claude_cli", "codex_cli", "openai", "anthropic"}
CliProviders == {"claude_cli", "codex_cli"}
Passes == {"session", "incremental"}

\* max_retries: int = 2
MaxRetries == 2

\* error texts a provider call can raise: subprocess.TimeoutExpired, the
\* RuntimeError of a non-zero return code (its stderr quoted), the
\* ValueErrors of _extract_json_payload, the RuntimeErrors of _post_json
ErrTimedOut == <<"Command", "timed", "out", "after", "90", "seconds">>
ErrRc1 == <<"cli", "failed", "rc=1", "stderr">>
ErrRc2RateLimit == <<"cli", "failed", "rc=2", "Rate", "limit", "exceeded">>
ErrNoJson == <<"no", "JSON", "object", "found", "in", "model", "output">>
ErrEmpty == <<"empty", "model", "output">>
ErrNetTimedOut == <<"Network", "error", "timed", "out">>
ErrHttp429 == <<"HTTP", "429", "Rate", "limit", "exceeded">>
ErrHttp500 == <<"HTTP", "500", "server", "error">>

ErrorTexts(provider) ==
    IF provider \in CliProviders
    THEN {ErrTimedOut, ErrRc1, ErrRc2RateLimit, ErrNoJson, ErrEmpty}
    ELSE {ErrNetTimedOut, ErrHttp429, ErrHttp500, ErrNoJson}

IsRetryableClaudeError(exc) ==
    LET text == Lower(exc) IN
        \/ Contains(text, <<"timed", "out">>)
        \/ Contains(text, <<"failed", "rc=1">>)
        \/ Contains(text, <<"no", "json", "object", "found">>)

IsRetryableCodexError(exc) ==
    LET text == Lower(exc) IN
        \/ Contains(text, <<"timed", "out">>)
        \/ Contains(text, <<"failed", "rc=1">>)
        \/ Contains(text, <<"no", "json", "object", "found">>)
        \/ Contains(text, <<"rate", "limit">>)

\* run_api picks infer_fn for the CLI providers and calls the HTTP
\* providers through infer_remote, which has no retry loop;
\* _infer_once of run_incremental_api dispatches the same way.
HasRetryWrapper(provider) == provider \in CliProviders

IsRetryable(provider, exc) ==
    IF provider = "claude_cli" THEN IsRetryableClaudeError(exc)
    ELSE IsRetryableCodexError(exc)

\* `if attempt >= max_retries or not retryable: raise`
WrapperRaises(provider, attempt, exc) ==
    \/ ~HasRetryWrapper(provider)
    \/ attempt >= MaxRetries
    \/ ~IsRetryable(provider, exc)

\* One inference call of one session (or of one incremental input) and
\* the caller's try/except around it.
\*   attempt : the wrapper's retry counter
\*   tries   : provider calls made so far
\*   errs    : the error text of every failed provider call, in order
\*   st      : "calling" | "returned" | "raised"
\*   results : records appended to `results` by the caller
\*   errors  : entries appended to `errors_payload` by the caller
\*   rc      : run_incremental_api's return code (incremental pass)
RetryInit ==
    /\ CmdIdle
    /\ api = Idle
    /\ incr = Idle
    /\ sync = Idle
    /\ \E p \in Providers, ps \in Passes :
        call = [provider |-> p, pass |-> ps, attempt |-> 0, tries |-> 0,
                errs |-> <<>>, st |-> "calling", results |-> 0,
                errors |-> <<>>, rc |-> None]

\* the provider call returns a JSON object
AttemptOk ==
    /\ call.st = "calling"
    /\ UNCHANGED <<api, incr, sync, cmdVars>>
    /\ call' = [call EXCEPT !.tries = @ + 1,
                            !.st = "returned",
                            !.results = IF call.pass = "session" THEN @ + 1 ELSE @,
                            !.rc = IF call.pass = "incremental" THEN 0 ELSE @]

\* the provider call raises exc
AttemptFail ==
    /\ call.st = "calling"
    /\ UNCHANGED <<api, incr, sync, cmdVars>>
    /\ \E exc \in ErrorTexts(call.provider) :
        IF WrapperRaises(call.provider, call.attempt, exc)
        THEN call' = [call EXCEPT !.tries = @ + 1,
                                  !.errs = Append(@, exc),
                                  !.st = "raised",
                                  !.errors = IF call.pass = "session"
                                              THEN Append(@, exc) ELSE @,
                                  !.rc = IF call.pass = "incremental" THEN 1 ELSE @]
        ELSE call' = [call EXCEPT !.tries = @ + 1,
                                  !.errs = Append(@, exc),
                                  !.attempt = @ + 1]

RetryNext == AttemptOk \/ AttemptFail

SpecRetry == RetryInit /\ [][RetryNext]_vars

----------------------------------------------------------------------------
(* SessionMechanismV1 records: normalisation (skill_runtime.py) and the    *)
(* contract validator (diagnose_helper.py).                                *)
(* A text is a sequence of words; the word " " stands for white space.     *)
(* An absent text or list is the empty sequence, an absent turn id is 0,   *)
(* an absent generated_by object is NoGeneratedBy.                         *)

SESSION_SCHEMA == "session-mechanism.v1"

PLACEHOLDER_TOKENS ==
    { <<"placeholder">>, <<"insufficient-evidence">>, <<"no", "validated">>,
      <<"need", "more", "session", "mechanism", "outputs">>,
      <<"collect-more-session-insights">>, <<"tbd">>, <<"trigger-missing">>,
      <<"action-missing">>, <<"root-cause-missing">>, <<"gain-missing">>,
      <<"window-missing">> }

DISALLOWED_GENERATED_BY_ENGINES == {"manual", "mock", "template"}
DISALLOWED_GENERATED_BY_PROVIDERS ==
    {"skill-manual", "manual", "mock", "api-mock", "template"}
DISALLOWED_RUN_ID_TOKENS ==
    {"replace-mock-sidecars", "mock-sidecar", "mock-backfill"}

\* " ".join(str(value or "").strip().split()): white space collapsed
AsNonEmptyText(value) == SelectSeq(value, LAMBDA w : w # " ")

\* isinstance(v, str) and v.strip()
IsNonEmptyStr(v) == AsNonEmptyText(v) # <<>>

ContainsPlaceholder(text) ==
    LET content == Lower(AsNonEmptyText(text)) IN
        IF content = <<>> THEN TRUE
        ELSE \E token \in PLACEHOLDER_TOKENS : Contains(content, token)

\* run ids are single words; a blocked token is matched on the word
NoGeneratedBy ==
    [engine |-> "", provider |-> "", model |-> "", run_id |-> "", generated_at |-> 0]

\* str(value).strip().lower() on a one-word value
StripLower(w) ==
    CASE w = " Manual " -> "manual"
      [] w = "MOCK" -> "mock"
      [] w = "Template" -> "template"
      [] w = "RUN-Mock-Backfill-7" -> "run-mock-backfill-7"
      [] OTHER -> LowerWord(w)

\* the blocked run-id tokens that occur inside a lower-cased run id
BlockedTokensIn(run_id) ==
    CASE run_id = "run-mock-backfill-7" -> {"mock-backfill"}
      [] run_id = "replace-mock-sidecars-2" -> {"replace-mock-sidecars", "mock-sidecar"}
      [] OTHER -> {run_id} \cap DISALLOWED_RUN_ID_TOKENS

\* a block test that compares the raw values
GeneratedByBlockReasonExact(generated_by) ==
    IF generated_by = NoGeneratedBy THEN None
    ELSE IF generated_by.engine \in DISALLOWED_GENERATED_BY_ENGINES
         THEN "generated_by.engine is not allowed"
    ELSE IF generated_by.provider \in DISALLOWED_GENERATED_BY_PROVIDERS
         THEN "generated_by.provider is not allowed"
    ELSE IF generated_by.run_id \in DISALLOWED_RUN_ID_TOKENS
         THEN "generated_by.run_id contains blocked token"
    ELSE None

GeneratedByBlockReason(generated_by) ==
    IF generated_by = NoGeneratedBy THEN None
    ELSE IF StripLower(generated_by.engine) \in DISALLOWED_GENERATED_BY_ENGINES
         THEN "generated_by.engine is not allowed"
    ELSE IF StripLower(generated_by.provider) \in DISALLOWED_GENERATED_BY_PROVIDERS
         THEN "generated_by.provider is not allowed"
    ELSE IF BlockedTokensIn(StripLower(generated_by.run_id)) # {}
         THEN "generated_by.run_id contains blocked token"
    ELSE None

\* _coerce_turn_id: a positive int, else dropped (0)
CoerceTurnId(value) == IF value > 0 THEN value ELSE 0

\* sequence comprehension helpers
FilterMap(seq, Keep(_), F(_)) ==
    LET kept == SelectSeq(seq, Keep) IN [i \in 1..Len(kept) |-> F(kept[i])]

RECURSIVE Flatten(_)
Flatten(seqs) == IF seqs = <<>> THEN <<>> ELSE Head(seqs) \o Flatten(Tail(seqs))

NormalizeEvidenceList(value) ==
    FilterMap(value,
            LAMBDA e : AsNonEmptyText(e.session_id) # <<>>
                       /\ CoerceTurnId(e.turn_id) # 0
                       /\ AsNonEmptyText(e.snippet) # <<>>,
            LAMBDA e : [session_id |-> AsNonEmptyText(e.session_id),
                        turn_id |-> CoerceTurnId(e.turn_id),
                        snippet |-> AsNonEmptyText(e.snippet)])

NormalizeActions(value) ==
    FilterMap(value, LAMBDA a : TRUE,
            LAMBDA a : [trigger |-> AsNonEmptyText(a.trigger),
                        action |-> AsNonEmptyText(a.action),
                        expected_gain |-> AsNonEmptyText(a.expected_gain),
                        validation_window |-> AsNonEmptyText(a.validation_window)])

\* the fields of a raw model output that the sanitizer rewrites
SanitizeSessionOutput(raw) ==
    LET what_happened ==
            FilterMap(raw.what_happened,
                    LAMBDA t : AsNonEmptyText(t) # <<>>,
                    LAMBDA t : AsNonEmptyText(t))
        summary0 == AsNonEmptyText(raw.summary)
        summary == IF summary0 = <<>> /\ what_happened # <<>>
                   THEN what_happened[1] ELSE summary0
        why == FilterMap(raw.why, LAMBDA w : TRUE,
                       LAMBDA w : [hypothesis |-> AsNonEmptyText(w.hypothesis),
                                   evidence |-> NormalizeEvidenceList(w.evidence)])
    IN [raw EXCEPT !.what_happened = what_happened,
                   !.summary = summary,
                   !.why = why,
                   !.how_to_improve = NormalizeActions(raw.how_to_improve)]

\* a normalisation that stamps the run context and trusts the identity the
\* model output carried
NormalizeTrustingOutput(raw, digest, run_id, provider, model, engine, now_iso) ==
    [SanitizeSessionOutput(raw) EXCEPT
        !.schema_version = SESSION_SCHEMA,
        !.generated_by = [engine |-> engine, provider |-> provider,
                          model |-> model, run_id |-> run_id,
                          generated_at |-> now_iso]]

\* the digest's identity and the run context replace whatever the model
\* output carried
NormalizeSessionOutput(raw, digest, run_id, provider, model, engine, now_iso) ==
    [SanitizeSessionOutput(raw) EXCEPT
        !.schema_version = SESSION_SCHEMA,
        !.session_id = digest.session_id,
        !.created_at = digest.created_at,
        !.generated_by = [engine |-> engine, provider |-> provider,
                          model |-> model, run_id |-> run_id,
                          generated_at |-> now_iso]]

ValidateEvidence(evidence) ==
    (IF ~IsNonEmptyStr(evidence.session_id)
        THEN <<"evidence.session_id must be non-empty string">> ELSE <<>>)
    \o (IF ~(evidence.turn_id > 0)
        THEN <<"evidence.turn_id must be positive integer">> ELSE <<>>)
    \o (IF ~IsNonEmptyStr(evidence.snippet)
        THEN <<"evidence.snippet must be non-empty string">> ELSE <<>>)

ValidateWhyItem(item) ==
    (IF ~IsNonEmptyStr(item.hypothesis)
        THEN <<"why.hypothesis must be non-empty string">> ELSE <<>>)
    \o (IF item.evidence = <<>>
        THEN <<"why.evidence must be non-empty list">>
        ELSE Flatten([i \in 1..Len(item.evidence) |-> ValidateEvidence(item.evidence[i])]))

ValidateAction(action) ==
    Flatten([k \in 1..4 |->
        LET v == CASE k = 1 -> action.trigger [] k = 2 -> action.action
                   [] k = 3 -> action.expected_gain [] OTHER -> action.validation_window
        IN IF ~IsNonEmptyStr(v)
           THEN <<"how_to_improve field must be non-empty string">> ELSE <<>>])

ValidateGeneratedBy(generated_by) ==
    IF generated_by = NoGeneratedBy THEN <<"generated_by must be object">>
    ELSE (IF generated_by.engine = "" \/ generated_by.provider = ""
             \/ generated_by.model = "" \/ generated_by.run_id = ""
             \/ generated_by.generated_at = 0
          THEN <<"generated_by field must be non-empty string">> ELSE <<>>)
         \o (IF GeneratedByBlockReason(generated_by) # None
             THEN <<"generated_by is blocked">> ELSE <<>>)

\* the ordered list of error strings; empty means valid
ValidateSessionMechanism(payload) ==
    (IF payload.schema_version # SESSION_SCHEMA
        THEN <<"schema_version must be session-mechanism.v1">> ELSE <<>>)
    \o (IF payload.session_id = ""
        THEN <<"session_id must be non-empty string">> ELSE <<>>)
    \o (IF payload.created_at = 0
        THEN <<"created_at must be non-empty string">> ELSE <<>>)
    \o (IF payload.what_happened = <<>>
        THEN <<"what_happened must be non-empty list">> ELSE <<>>)
    \o (IF payload.why = <<>>
        THEN <<"why must be non-empty list">>
        ELSE Flatten([i \in 1..Len(payload.why) |-> ValidateWhyItem(payload.why[i])]))
    \o (IF payload.how_to_improve = <<>>
        THEN <<"how_to_improve must be non-empty list">>
        ELSE Flatten([i \in 1..Len(payload.how_to_improve) |->
                        ValidateAction(payload.how_to_improve[i])]))
    \o (IF ~IsNonEmptyStr(payload.summary)
        THEN <<"summary must be non-empty string">> ELSE <<>>)
    \o ValidateGeneratedBy(payload.generated_by)

HasValidEvidenceItem(item) ==
    /\ AsNonEmptyText(item.session_id) # <<>>
    /\ Lower(AsNonEmptyText(item.session_id)) \notin {<<"n/a">>, <<"unknown">>}
    /\ item.turn_id > 0
    /\ AsNonEmptyText(item.snippet) # <<>>
    /\ ~ContainsPlaceholder(item.snippet)

SessionHasMechanismSignal(session) ==
    /\ GeneratedByBlockReason(session.generated_by) = None
    /\ ~ContainsPlaceholder(session.summary)
    /\ \E i \in 1..Len(session.why) :
          LET why == session.why[i] IN
            /\ AsNonEmptyText(why.hypothesis) # <<>>
            /\ ~ContainsPlaceholder(why.hypothesis)
            /\ \E j \in 1..Len(why.evidence) : HasValidEvidenceItem(why.evidence[j])

----------------------------------------------------------------------------
(* Provider outputs and run bundles.                                       *)

NumDigests == 3
MaxWorkers == 2

SessionIds == [i \in 1..NumDigests |-> CASE i = 1 -> "s1" [] i = 2 -> "s2"
                                          [] i = 3 -> "s3" [] OTHER -> "s4"]

\* one digest of session_digests.json; created_at is a day number, 0 = ""
Digest(i, sid) == [session_id |-> sid, created_at |-> i]

RawKinds == {"good", "blank_summary", "tbd", "no_why", "foreign"}

\* what a provider can answer for a digest, before normalisation
RawOutput(kind, digest) ==
    LET ev == [session_id |-> <<digest.session_id>>, turn_id |-> 1,
               snippet |-> <<"same", " ", "command", "again">>]
        good == [schema_version |-> "",
                 session_id |-> digest.session_id,
                 created_at |-> digest.created_at,
                 generated_by |-> NoGeneratedBy,
                 what_happened |-> << <<"user", "repeats", "command">>, <<" ">> >>,
                 summary |-> <<"agent", "loops">>,
                 why |-> <<[hypothesis |-> <<"no", "new", "evidence">>,
                            evidence |-> <<ev, [ev EXCEPT !.turn_id = 0]>>]>>,
                 how_to_improve |-> <<[trigger |-> <<"two", "failures">>,
                                       action |-> <<"change", "approach">>,
                                       expected_gain |-> <<"fewer", "retries">>,
                                       validation_window |-> <<"next", "week">>]>>]
    IN CASE kind = "good" -> good
         [] kind = "blank_summary" -> [good EXCEPT !.summary = <<" ">>]
         [] kind = "tbd" -> [good EXCEPT !.summary = <<"TBD">>]
         [] kind = "no_why" -> [good EXCEPT !.why = <<>>]
         [] OTHER -> [good EXCEPT !.session_id = "other", !.created_at = 99,
                                  !.generated_by = [engine |-> "manual",
                                      provider |-> "manual", model |-> "m",
                                      run_id |-> "mock-backfill",
                                      generated_at |-> 1]]

DefaultModel(provider) ==
    CASE provider = "claude_cli" -> "sonnet"
      [] provider = "codex_cli" -> "gpt-5-codex"
      [] provider = "openai" -> "gpt-4o-mini"
      [] OTHER -> "claude-3-5-sonnet-latest"

Range(seq) == {seq[i] : i \in 1..Len(seq)}

\* [(idx, digest) for idx, digest in enumerate(sessions, 1) if digest.session_id]
SessionItems(sessions) == {i \in 1..Len(sessions) : sessions[i].session_id # ""}

\* the results in completion order, the sort left out
UnsortedResults(results) == [k \in 1..Len(results) |-> results[k][2]]

\* results.sort(key=lambda item: item[0]); [item[1] for item in results]
OrderedResults(results) ==
    [k \in 1..Len(results) |->
        (CHOOSE r \in Range(results) :
            Cardinality({q \in Range(results) : q[1] < r[1]}) = k - 1)[2]]

\* an exit code that overlooks the failed sessions
RunApiRcIgnoringErrors(errors_payload, results, allow_partial) ==
    IF results = <<>> THEN 1 ELSE 0

\* the exit code once the results file is written
RunApiRc(errors_payload, results, allow_partial) ==
    IF errors_payload # <<>> /\ ~allow_partial THEN 1
    ELSE IF results = <<>> THEN 1
    ELSE 0

----------------------------------------------------------------------------
(* run_api, one run, step by step: the session pass over a run bundle,     *)
(* sequentially or through the thread pool.  An inference (retries         *)
(* included) either returns a raw output or raises.                        *)

AllProviders == Providers \cup {"gemini"}

ApiRunId == "run-1"

\* files of the run directory; Absent = no such file
Absent == [schema_version |-> "absent"]

ApiInit ==
    /\ CmdIdle
    /\ call = Idle
    /\ incr = Idle
    /\ sync = Idle
    /\ \E provider \in AllProviders, dry_run \in BOOLEAN, allow_partial \in BOOLEAN,
          max_workers \in 1..MaxWorkers, key_set \in BOOLEAN,
          named \in SUBSET (1..NumDigests) :
        api = [pc |-> "start",
               provider |-> provider, dry_run |-> dry_run,
               allow_partial |-> allow_partial, max_workers |-> max_workers,
               key_set |-> key_set,
               sessions |-> [i \in 1..NumDigests |->
                               Digest(i, IF i \in named THEN SessionIds[i] ELSE "")],
               future |-> [i \in 1..NumDigests |-> "none"],
               outcome |-> [i \in 1..NumDigests |-> "none"],
               submitted |-> [i \in 1..NumDigests |-> 0],
               results |-> <<>>, errors_payload |-> <<>>,
               preview |-> Absent, results_file |-> Absent, errors_file |-> Absent,
               rc |-> -1]

\* a run that never misses its key
KeyNeverMissing(provider, key_set) == FALSE

\* os.getenv(key_env, "").strip() is empty for an HTTP provider
KeyMissing(provider, key_set) == provider \notin CliProviders /\ ~key_set

\* lines 976-1012 and the checks that precede the first inference
RunApiStart ==
    /\ api.pc = "start"
    /\ UNCHANGED <<call, incr, sync, cmdVars>>
    /\ IF api.provider \notin Providers
       THEN api' = [api EXCEPT !.pc = "done", !.rc = 2]
       ELSE LET withPreview ==
                    [api EXCEPT !.preview =
                        [schema_version |-> "diagnose-api-preview.v1",
                         run_id |-> ApiRunId, provider |-> api.provider,
                         model |-> DefaultModel(api.provider),
                         dry_run |-> api.dry_run,
                         session_count |-> Len(api.sessions)]]
                items == SessionItems(api.sessions)
            IN IF api.dry_run
               THEN api' = [withPreview EXCEPT !.pc = "done", !.rc = 0]
               ELSE IF api.provider \in CliProviders /\ items = {}
               THEN api' = [withPreview EXCEPT !.pc = "done", !.rc = 1]
               ELSE IF KeyMissing(api.provider, api.key_set)
               THEN api' = [withPreview EXCEPT !.pc = "done", !.rc = 2]
               ELSE IF api.max_workers = 1
               THEN api' = [withPreview EXCEPT !.pc = "loop"]
               ELSE api' = [withPreview EXCEPT !.pc = "pool",
                               !.future = [i \in 1..NumDigests |->
                                   IF i \in items THEN "pending" ELSE "none"]]

\* a main thread that forgets an inference that raised
CollectDroppingFailures(a, idx, kind) ==
    IF kind = "raise"
    THEN [a EXCEPT !.future[idx] = "done", !.outcome[idx] = kind]
    ELSE [a EXCEPT !.future[idx] = "done", !.outcome[idx] = kind,
                   !.results = Append(@,
                       <<idx, NormalizeSessionOutput(
                                 RawOutput(kind, a.sessions[idx]),
                                 a.sessions[idx], ApiRunId, a.provider,
                                 DefaultModel(a.provider), "api", 1)>>)]

\* what the main thread does with one finished inference
Collect(a, idx, kind) ==
    IF kind = "raise"
    THEN [a EXCEPT !.future[idx] = "done", !.outcome[idx] = kind,
                   !.errors_payload = Append(@,
                       [session_id |-> a.sessions[idx].session_id,
                        error |-> ErrTimedOut])]
    ELSE [a EXCEPT !.future[idx] = "done", !.outcome[idx] = kind,
                   !.results = Append(@,
                       <<idx, NormalizeSessionOutput(
                                 RawOutput(kind, a.sessions[idx]),
                                 a.sessions[idx], ApiRunId, a.provider,
                                 DefaultModel(a.provider), "api", 1)>>)]

\* the outcomes of one inference that the pool model distinguishes
InferOutcomes == {"good", "foreign", "raise"}

\* workers == 1: the for loop takes the next item in bundle order
InferSequential ==
    /\ api.pc = "loop"
    /\ UNCHANGED <<call, incr, sync, cmdVars>>
    /\ \E idx \in SessionItems(api.sessions), kind \in InferOutcomes :
        /\ api.future[idx] = "none"
        /\ \A j \in SessionItems(api.sessions) : j < idx => api.future[j] = "done"
        /\ api' = [Collect(api, idx, kind) EXCEPT !.submitted[idx] = @ + 1]

\* a pool thread takes the oldest queued future
WorkerStart ==
    /\ api.pc = "pool"
    /\ UNCHANGED <<call, incr, sync, cmdVars>>
    /\ \E idx \in 1..NumDigests :
        /\ api.future[idx] = "pending"
        /\ \A j \in 1..NumDigests : j < idx => api.future[j] # "pending"
        /\ Cardinality({j \in 1..NumDigests : api.future[j] = "running"})
              < api.max_workers
        /\ api' = [api EXCEPT !.future[idx] = "running", !.submitted[idx] = @ + 1]

\* as_completed yields a future once its inference is over, in any order
FutureCompleted ==
    /\ api.pc = "pool"
    /\ UNCHANGED <<call, incr, sync, cmdVars>>
    /\ \E idx \in 1..NumDigests, kind \in InferOutcomes :
        /\ api.future[idx] = "running"
        /\ api' = Collect(api, idx, kind)

\* lines 1089-1123 and 1206-1241
RunApiFinish ==
    /\ api.pc \in {"loop", "pool"}
    /\ UNCHANGED <<call, incr, sync, cmdVars>>
    /\ \A idx \in SessionItems(api.sessions) : api.future[idx] = "done"
    /\ api' = [api EXCEPT
          !.pc = "done",
          !.results_file = [schema_version |-> "session-mechanism-batch.v1",
                            run_id |-> ApiRunId,
                            sessions |-> OrderedResults(api.results)],
          !.errors_file = IF api.errors_payload # <<>>
                          THEN [schema_version |-> "diagnose-api-errors.v1",
                                run_id |-> ApiRunId, provider |-> api.provider,
                                model |-> DefaultModel(api.provider),
                                failed_sessions |-> api.errors_payload]
                          ELSE @,
          !.rc = RunApiRc(api.errors_payload, api.results, api.allow_partial)]

ApiNext ==
    RunApiStart \/ InferSequential \/ WorkerStart \/ FutureCompleted \/ RunApiFinish

SpecRunApi == ApiInit /\ [][ApiNext]_vars

----------------------------------------------------------------------------
(* run_incremental_api, one run: a single provider call, or chunk calls    *)
(* followed by a merge call.  A session item is its position in the input. *)

INCREMENTAL_CHUNK_SIZE == 24
MaxSessionItems == 49

INCREMENTAL_SCHEMA == "incremental-mechanism.v1"

IncrementalInput(n) ==
    [schema_version |-> "incremental-input.v1",
     period_id |-> "2026-W01",
     sessions |-> [i \in 1..n |-> i],
     coverage |-> [sessions_total |-> n, sessions_with_mechanism |-> n],
     chunk_reports |-> <<>>]

\* what the provider can answer to one incremental call
IncrOutcomes == {"payload", "wrapped", "other", "raise"}

IncrRawOutput(kind, input) ==
    LET payload == [schema_version |-> INCREMENTAL_SCHEMA,
                    coverage |-> input.coverage,
                    reports |-> <<[dimension |-> "incremental-root-cause",
                                   first_session |->
                                     IF input.sessions = <<>> THEN 0
                                     ELSE input.sessions[1]]>>]
    IN CASE kind = "payload" -> payload
         [] kind = "wrapped" -> [schema_version |-> "", incremental |-> payload]
         [] OTHER -> [schema_version |-> "", note |-> "no mechanism"]

EmptyPayload == [schema_version |-> "empty"]

\* _coerce_incremental_payload
CoerceIncrementalPayload(raw) ==
    IF raw.schema_version = INCREMENTAL_SCHEMA THEN raw
    ELSE IF "incremental" \in DOMAIN raw THEN raw.incremental
    ELSE EmptyPayload

TotalChunks(n) == (n + INCREMENTAL_CHUNK_SIZE - 1) \div INCREMENTAL_CHUNK_SIZE

Min(a, b) == IF a < b THEN a ELSE b

\* slices that start one item early: session_items[start - 1:end]
ChunkSessionItemsOverlapping(session_items, chunk_idx) ==
    LET start == chunk_idx * INCREMENTAL_CHUNK_SIZE
        end == Min(start + INCREMENTAL_CHUNK_SIZE, Len(session_items))
    IN SubSeq(session_items, IF start = 0 THEN 1 ELSE start, end)

\* session_items[start:end] for the 0-based chunk_idx
ChunkSessionItems(session_items, chunk_idx) ==
    LET start == chunk_idx * INCREMENTAL_CHUNK_SIZE
        end == Min(start + INCREMENTAL_CHUNK_SIZE, Len(session_items))
    IN SubSeq(session_items, start + 1, end)

ChunkInput(input, chunk_idx) ==
    LET items == ChunkSessionItems(input.sessions, chunk_idx) IN
        [input EXCEPT !.sessions = items,
                      !.coverage.sessions_with_mechanism = Len(items)]

MergeInput(input, chunk_reports) ==
    [input EXCEPT !.sessions = <<>>, !.chunk_reports = chunk_reports]

IncrInit ==
    /\ CmdIdle
    /\ call = Idle
    /\ api = Idle
    /\ sync = Idle
    /\ \E provider \in AllProviders, dry_run \in BOOLEAN, key_set \in BOOLEAN,
          n \in 0..MaxSessionItems :
        incr = [pc |-> "start", provider |-> provider, dry_run |-> dry_run,
                key_set |-> key_set, input |-> IncrementalInput(n),
                chunk_idx |-> 0, chunk_reports |-> <<>>,
                calls |-> <<>>, files |-> {}, rc |-> -1]

\* lines 1256-1318: everything before the first inference
IncrStart ==
    /\ incr.pc = "start"
    /\ UNCHANGED <<call, api, sync, cmdVars>>
    /\ IF incr.provider \notin Providers
       THEN incr' = [incr EXCEPT !.pc = "done", !.rc = 2]
       ELSE LET written == [incr EXCEPT !.files = @ \cup {<<"incremental_input">>,
                                                          <<"preview">>}]
            IN IF incr.dry_run
               THEN incr' = [written EXCEPT !.pc = "done", !.rc = 0]
               ELSE IF KeyMissing(incr.provider, incr.key_set)
               THEN incr' = [written EXCEPT !.pc = "done", !.rc = 2]
               ELSE incr' = [written EXCEPT !.pc = "infer"]

\* chunking that already starts at a full chunk
UseChunkingFromFullChunk(input) == Len(input.sessions) >= INCREMENTAL_CHUNK_SIZE

UseChunking(input) == Len(input.sessions) > INCREMENTAL_CHUNK_SIZE

\* one _infer_once call as the provider sees it
CallRecord(kind, payload, files) ==
    [kind |-> kind, sessions |-> payload.sessions,
     sessions_with_mechanism |-> payload.coverage.sessions_with_mechanism,
     chunk_reports |-> payload.chunk_reports, files |-> files]

\* not use_chunking: line 1358, then 1417-1428
InferOnce ==
    /\ incr.pc = "infer"
    /\ ~UseChunking(incr.input)
    /\ UNCHANGED <<call, api, sync, cmdVars>>
    /\ \E kind \in IncrOutcomes :
        LET called == [incr EXCEPT !.calls = Append(@,
                          CallRecord("single", incr.input, incr.files))]
        IN IF kind = "raise"
           THEN incr' = [called EXCEPT !.pc = "done", !.rc = 1]
           ELSE incr' = [called EXCEPT !.pc = "done", !.rc = 0,
                                       !.files = @ \cup {<<"result">>}]

\* one pass of the chunk loop, lines 1370-1403
ChunkCall ==
    /\ incr.pc = "infer"
    /\ UseChunking(incr.input)
    /\ incr.chunk_idx < TotalChunks(Len(incr.input.sessions))
    /\ UNCHANGED <<call, api, sync, cmdVars>>
    /\ \E kind \in IncrOutcomes :
        LET total_chunks == TotalChunks(Len(incr.input.sessions))
            chunk_input == ChunkInput(incr.input, incr.chunk_idx)
            called == [incr EXCEPT !.calls = Append(@,
                          CallRecord("chunk", chunk_input, incr.files))]
            chunk_payload ==
                IF kind = "raise" THEN EmptyPayload
                ELSE CoerceIncrementalPayload(IncrRawOutput(kind, chunk_input))
        IN IF chunk_payload = EmptyPayload
           THEN incr' = [called EXCEPT !.pc = "done", !.rc = 1]
           ELSE incr' = [called EXCEPT
                   !.files = @ \cup {<<"incremental_chunk",
                                       incr.chunk_idx + 1, total_chunks>>},
                   !.chunk_reports = Append(@,
                       [chunk_id |-> <<incr.chunk_idx + 1, total_chunks>>,
                        coverage |-> chunk_payload.coverage,
                        reports |-> chunk_payload.reports]),
                   !.chunk_idx = @ + 1]

\* lines 1405-1428
MergeCall ==
    /\ incr.pc = "infer"
    /\ UseChunking(incr.input)
    /\ incr.chunk_idx = TotalChunks(Len(incr.input.sessions))
    /\ UNCHANGED <<call, api, sync, cmdVars>>
    /\ \E kind \in IncrOutcomes :
        LET called == [incr EXCEPT !.calls = Append(@,
                          CallRecord("merge",
                              MergeInput(incr.input, incr.chunk_reports),
                              incr.files))]
        IN IF kind = "raise"
           THEN incr' = [called EXCEPT !.pc = "done", !.rc = 1]
           ELSE incr' = [called EXCEPT !.pc = "done", !.rc = 0,
                                       !.files = @ \cup {<<"result">>}]

IncrNext == IncrStart \/ InferOnce \/ ChunkCall \/ MergeCall

SpecIncrApi == IncrInit /\ [][IncrNext]_vars

----------------------------------------------------------------------------
(* IncrementalMechanismV1 payloads: the dimension registry, report order   *)
(* and the contract validator.  A key that a JSON object does not carry is *)
(* Missing (strings) or MissingNum (numbers).                              *)

Missing == "<missing>"
MissingNum == -99

DIMENSION_LAYER_PAIRS ==
    << <<"incremental-trigger-chains", "L2">>,
       <<"incremental-first-pass-diagnostics", "L2">>,
       <<"incremental-coverage-gap", "L2">>,
       <<"incremental-task-stratification", "L2">>,
       <<"incremental-root-causes", "L3">>,
       <<"incremental-change-delta", "L3">>,
       <<"incremental-interventions", "L3">>,
       <<"incremental-intervention-impact", "L3">>,
       <<"incremental-validation-loop", "L3">>,
       <<"incremental-reuse-assets", "L3">>,
       <<"incremental-compounding", "L3">> >>

IsSupportedDimension(dimension) ==
    \E i \in 1..Len(DIMENSION_LAYER_PAIRS) : DIMENSION_LAYER_PAIRS[i][1] = dimension

\* DIMENSION_LAYER_MAP.get(dimension); "" when unknown
ExpectedLayer(dimension) ==
    IF IsSupportedDimension(dimension)
    THEN DIMENSION_LAYER_PAIRS[CHOOSE i \in 1..Len(DIMENSION_LAYER_PAIRS) :
                                  DIMENSION_LAYER_PAIRS[i][1] = dimension][2]
    ELSE ""

\* DIMENSION_ORDER_INDEX.get(dimension, len(DIMENSION_ORDER_INDEX))
DimensionRank(dimension) ==
    IF IsSupportedDimension(dimension)
    THEN (CHOOSE i \in 1..Len(DIMENSION_LAYER_PAIRS) :
              DIMENSION_LAYER_PAIRS[i][1] = dimension) - 1
    ELSE Len(DIMENSION_LAYER_PAIRS)

\* str(value or ""): an absent key reads as the empty string
StrOr(value, default) == IF value = Missing \/ value = "" THEN default ELSE value

\* the position of a string among the strings of the model, in str order
StringOrd(str) ==
    CASE str = "" -> 0
      [] str = "2026-01-05" -> 1
      [] str = "2026-01-12" -> 2
      [] str = "2026-W01" -> 3
      [] str = "2026-W02" -> 4
      [] str = "Root" -> 5
      [] str = "Task" -> 6
      [] str = "Trigger" -> 7
      [] str = "jizhi" -> 8
      [] OTHER -> 9

\* texts of the model are ordered by their first word
TextOrd(text) == IF AsNonEmptyText(text) = <<>> THEN 0 ELSE StringOrd(AsNonEmptyText(text)[1])

\* obj.get(key, default)
Get(obj, key, default) == IF key \in DOMAIN obj THEN obj[key] ELSE default

\* str(value).strip() on a dimension or a layer
StripWord(w) ==
    CASE w = " incremental-root-causes " -> "incremental-root-causes"
      [] w = " L3 " -> "L3"
      [] OTHER -> w

\* a sort key that looks at the title only
ReportSortKeyByTitle(report) == <<TextOrd(report.title)>>

\* (rank, period, date, title)
ReportSortKey(report) ==
    <<DimensionRank(StripWord(StrOr(report.dimension, ""))),
      StringOrd(StrOr(report.period, "")),
      StringOrd(StrOr(report.date, "")), TextOrd(report.title)>>

\* tuple comparison, left to right
KeyLess(a, b) ==
    \E i \in 1..Len(a) : a[i] < b[i] /\ \A j \in 1..(i - 1) : a[j] = b[j]

\* sorted(reports, key=...): stable, so an item goes after its equals
RECURSIVE InsertByKey(_, _)
InsertByKey(sorted, report) ==
    IF sorted = <<>> THEN <<report>>
    ELSE IF KeyLess(ReportSortKey(report), ReportSortKey(Head(sorted)))
         THEN <<report>> \o sorted
         ELSE <<Head(sorted)>> \o InsertByKey(Tail(sorted), report)

RECURSIVE SortReports(_)
SortReports(reports) ==
    IF reports = <<>> THEN <<>>
    ELSE InsertByKey(SortReports(SubSeq(reports, 1, Len(reports) - 1)),
                     reports[Len(reports)])

\* isinstance(v, str) and v.strip(), for a key that may be absent
IsNonEmptyWord(v) == v # Missing /\ v # ""

NonBlankLines(lines) == SelectSeq(lines, LAMBDA l : AsNonEmptyText(l) # <<>>)

\* a date string that is empty or white space
BlankDate == -1

MAX_DETAIL_LINES_PER_REPORT == 80

\* len(normalized_lines) >= 20
EVIDENCE_DUMP_MIN_LINES == 20

\* the words _EVIDENCE_DUMP_PATTERN finds, lower-cased
EVIDENCE_DUMP_WORDS == {"#t1", "session_id", "session-id"}

EvidenceLike(line) == \E i \in 1..Len(line) : LowerWord(line[i]) \in EVIDENCE_DUMP_WORDS

\* period_id or week or ""
PayloadPeriod(payload) == StrOr(payload.period_id, StrOr(payload.week, ""))

\* the (dimension, period) keys of the reports before position idx
SeenReportKeys(payload, idx) ==
    {<<StripWord(payload.reports[j].dimension),
       StrOr(payload.reports[j].period, PayloadPeriod(payload))>> :
        j \in {i \in 1..(idx - 1) :
                 /\ StrOr(payload.reports[i].dimension, "") # ""
                 /\ StrOr(payload.reports[i].period, PayloadPeriod(payload)) # ""}}

\* the two checks on the non-blank detail lines, lines 521-541
ValidateDetailLines(detail_lines) ==
    LET normalized_lines == NonBlankLines(detail_lines)
        evidence_like == Len(SelectSeq(normalized_lines, EvidenceLike))
    IN (IF Len(normalized_lines) > MAX_DETAIL_LINES_PER_REPORT
           THEN <<"report.detail_lines has too many lines">> ELSE <<>>)
       \o (IF Len(normalized_lines) >= EVIDENCE_DUMP_MIN_LINES
              /\ 10 * evidence_like >= 7 * Len(normalized_lines)
           THEN <<"report looks like per-session evidence dump">> ELSE <<>>)

ValidateReport(payload, idx) ==
    LET item == payload.reports[idx]
        dimension == StripWord(StrOr(item.dimension, ""))
        layer == StripWord(StrOr(item.layer, ""))
        period_key == StrOr(item.period, PayloadPeriod(payload))
        has_lines == NonBlankLines(item.detail_lines) # <<>>
        has_text == IsNonEmptyStr(Get(item, "detail_text", <<>>))
    IN (IF ~IsNonEmptyWord(item.dimension)
           THEN <<"report.dimension must be non-empty string">> ELSE <<>>)
       \o (IF ~IsNonEmptyWord(item.layer)
           THEN <<"report.layer must be non-empty string">> ELSE <<>>)
       \o (IF ~IsNonEmptyStr(item.title)
           THEN <<"report.title must be non-empty string">> ELSE <<>>)
       \o (IF ~IsNonEmptyStr(item.key_insights)
           THEN <<"report.key_insights must be non-empty string">> ELSE <<>>)
       \o (IF dimension # "" /\ ~IsSupportedDimension(dimension)
           THEN <<"report.dimension must be one of the registry">> ELSE <<>>)
       \o (IF dimension # "" /\ ExpectedLayer(dimension) # "" /\ layer # ""
              /\ layer # ExpectedLayer(dimension)
           THEN <<"report.layer must be the registry layer">> ELSE <<>>)
       \o (IF item.period = ""
           THEN <<"report.period must be non-empty string when present">> ELSE <<>>)
       \o (IF item.date = ""
           THEN <<"report.date must be non-empty string when present">> ELSE <<>>)
       \o (IF dimension # "" /\ period_key # ""
              /\ <<dimension, period_key>> \in SeenReportKeys(payload, idx)
           THEN <<"duplicate report key detected for dimension+period">> ELSE <<>>)
       \o (IF Get(item, "conversations_analyzed", 0) < 0
           THEN <<"report.conversations_analyzed must be non-negative integer when present">>
           ELSE <<>>)
       \o (IF ~has_lines /\ ~has_text
           THEN <<"report requires detail_lines or detail_text">> ELSE <<>>)
       \o ValidateDetailLines(item.detail_lines)

\* lines 456-466: the since and until keys of the period object
ValidatePeriod(period) ==
    (IF period.since = BlankDate
        THEN <<"period.since must be non-empty string when present">> ELSE <<>>)
    \o (IF period.until = BlankDate
        THEN <<"period.until must be non-empty string when present">> ELSE <<>>)

\* a coverage check that looks at the signs only
ValidateCoverageSigns(coverage) ==
    (IF coverage.sessions_total < 0
        THEN <<"coverage.sessions_total must be non-negative integer">> ELSE <<>>)
    \o (IF coverage.sessions_with_mechanism < 0
        THEN <<"coverage.sessions_with_mechanism must be non-negative integer">>
        ELSE <<>>)

ValidateCoverage(coverage) ==
    (IF coverage.sessions_total < 0
        THEN <<"coverage.sessions_total must be non-negative integer">> ELSE <<>>)
    \o (IF coverage.sessions_with_mechanism < 0
        THEN <<"coverage.sessions_with_mechanism must be non-negative integer">>
        ELSE <<>>)
    \o (IF coverage.sessions_total # MissingNum
           /\ coverage.sessions_with_mechanism # MissingNum
           /\ coverage.sessions_with_mechanism > coverage.sessions_total
        THEN <<"coverage.sessions_with_mechanism cannot exceed coverage.sessions_total">>
        ELSE <<>>)

\* the ordered list of error strings; empty means valid
ValidateIncrementalMechanism(payload) ==
    (IF payload.schema_version # INCREMENTAL_SCHEMA
        THEN <<"schema_version must be incremental-mechanism.v1">> ELSE <<>>)
    \o (IF ~IsNonEmptyWord(payload.period_id) /\ ~IsNonEmptyWord(payload.week)
        THEN <<"period_id or week must be provided">> ELSE <<>>)
    \o ValidatePeriod(payload.period)
    \o (IF payload.reports = <<>>
        THEN <<"reports must be non-empty list">>
        ELSE Flatten([i \in 1..Len(payload.reports) |-> ValidateReport(payload, i)]))
    \o ValidateCoverage(payload.coverage)

----------------------------------------------------------------------------
(* Report synchronisation: the reports built from a payload and the        *)
(* quality gate.  The words "jizhi" and "genyin" stand for CJK words.      *)

CjkWords == {"jizhi", "genyin"}

ContainsCjk(text) == \E i \in 1..Len(text) : text[i] \in CjkWords

MECHANISM_TOKENS ==
    { <<"jizhi">>, <<"genyin">>, <<"hypothesis">>, <<"root", "cause">>,
      <<"trigger">>, <<"action">>, <<"validation">> }

LooksMechanistic(text) ==
    LET content == Lower(AsNonEmptyText(text)) IN
        content # <<>> /\ \E token \in MECHANISM_TOKENS : Contains(content, token)

\* _normalize_report_item returns None for these items
ReportItemDropped(item) ==
    \/ StrOr(item.dimension, "") = ""
    \/ StrOr(item.layer, "") = ""
    \/ AsNonEmptyText(item.title) = <<>>
    \/ AsNonEmptyText(item.key_insights) = <<>>
    \/ NonBlankLines(item.detail_lines) = <<>>

NormalizeReportItem(item, default_period) ==
    [dimension |-> item.dimension, layer |-> item.layer,
     title |-> AsNonEmptyText(item.title),
     period |-> StrOr(item.period, default_period),
     date |-> StrOr(item.date, "2026-01-12"),
     key_insights |-> AsNonEmptyText(item.key_insights),
     detail_lines |-> [i \in 1..Len(NonBlankLines(item.detail_lines)) |->
                          AsNonEmptyText(NonBlankLines(item.detail_lines)[i])]]

BuildReportsFromIncremental(incremental) ==
    LET default_period == StrOr(incremental.period_id,
                                StrOr(incremental.week, "unknown-period"))
    IN SortReports(FilterMap(incremental.reports,
                             LAMBDA item : ~ReportItemDropped(item),
                             LAMBDA item : NormalizeReportItem(item, default_period)))

\* the reasons evaluate_payload_quality collects for one report
ReportQualityReasons(report) ==
    LET lines == SelectSeq(report.detail_lines, LAMBDA l : ~ContainsPlaceholder(l))
        probe == report.key_insights \o Flatten(SubSeq(lines, 1, Min(8, Len(lines))))
    IN (IF ContainsPlaceholder(report.title)
           THEN <<"title looks placeholder">> ELSE <<>>)
       \o (IF ContainsPlaceholder(report.key_insights)
           THEN <<"key_insights looks placeholder">> ELSE <<>>)
       \o (IF lines = <<>>
           THEN <<"detail lines are empty or placeholder-only">>
           ELSE IF ~LooksMechanistic(probe)
           THEN <<"lacks mechanism/action language">> ELSE <<>>)

EvaluatePayloadQuality(incremental) ==
    LET reports == BuildReportsFromIncremental(incremental) IN
        IF reports = <<>> THEN <<"no valid skill-authored reports found">>
        ELSE Flatten([i \in 1..Len(reports) |-> ReportQualityReasons(reports[i])])

ReportKey(report) == <<report.dimension, report.period>>

----------------------------------------------------------------------------
(* Incremental payloads of the model.                                      *)

RootCauseReport ==
    [dimension |-> "incremental-root-causes", layer |-> "L3",
     title |-> <<"genyin", "Root", "cause">>,
     key_insights |-> <<"retry", "loop", "root", "cause">>,
     period |-> Missing, date |-> Missing,
     detail_lines |-> << <<"trigger", "two", "failures">>, <<" ">> >>]

TaskReport ==
    [dimension |-> "incremental-task-stratification", layer |-> "L2",
     title |-> <<"Task", "layers">>,
     key_insights |-> <<"action", "per", "layer">>,
     period |-> Missing, date |-> Missing,
     detail_lines |-> << <<"validation", "next", "week">> >>]

PayloadKinds ==
    {"two_reports", "one_report", "bare", "layer_mismatch", "stamped", "placeholder"}

\* a result payload as a provider or a result file supplies it
IncrPayload(kind) ==
    LET full == [schema_version |-> INCREMENTAL_SCHEMA,
                 period_id |-> "2026-W01", week |-> Missing,
                 reports |-> <<RootCauseReport, TaskReport>>,
                 coverage |-> [sessions_total |-> 2, sessions_with_mechanism |-> 1],
                 source_run_id |-> Missing, generated_at |-> MissingNum,
                 period |-> [since |-> MissingNum, until |-> MissingNum]]
    IN CASE kind = "two_reports" -> full
         [] kind = "one_report" -> [full EXCEPT !.reports = <<TaskReport>>]
         [] kind = "bare" ->
              [full EXCEPT !.period_id = Missing,
                           !.coverage = [sessions_total |-> MissingNum,
                                         sessions_with_mechanism |-> MissingNum]]
         [] kind = "layer_mismatch" ->
              [full EXCEPT !.reports = <<[TaskReport EXCEPT !.layer = "L3"]>>]
         [] kind = "stamped" ->
              [full EXCEPT !.generated_at = 50, !.source_run_id = "incremental-7"]
         [] OTHER ->
              [full EXCEPT !.reports = <<[TaskReport EXCEPT !.title = <<"TBD">>]>>]

----------------------------------------------------------------------------
(* sync_reports_from_incremental against the external report database,     *)
(* run twice on the same payload.  A page id is the page's position in     *)
(* the database; a database query returns the pages that are not archived. *)

MaxPages == 2

PageKeys ==
    { <<"incremental-root-causes", "2026-W01">>,
      <<"incremental-task-stratification", "2026-W01">>,
      <<"", "2026-W01">> }

PageStates == [key : PageKeys, is_zh : BOOLEAN, sort_key : 1..2, archived : {FALSE}]

SyncPayloadKinds == {"two_reports", "one_report", "placeholder"}

SyncInit ==
    /\ CmdIdle
    /\ call = Idle
    /\ api = Idle
    /\ incr = Idle
    /\ \E kind \in SyncPayloadKinds, n \in 0..MaxPages :
        \E pages \in [1..n -> PageStates] :
            sync = [pc |-> "ready", run |-> 0, dry_run |-> FALSE,
                    payload |-> IncrPayload(kind), pages |-> pages,
                    index |-> <<>>, duplicates |-> <<>>, failed |-> 0,
                    reports |-> <<>>, written |-> 0,
                    log |-> <<>>, rcs |-> <<>>, drys |-> <<>>]

\* client.query_database: ids of the pages that are not archived, in order
QueryDatabase(pages) == SelectSeq([i \in 1..Len(pages) |-> i],
                                  LAMBDA id : ~pages[id].archived)

\* the pages of the query that carry a full key, grouped by key
Grouped(pages, key) ==
    SelectSeq(QueryDatabase(pages), LAMBDA id : pages[id].key = key)

GroupedKeys(pages) ==
    {pages[id].key : id \in {i \in Range(QueryDatabase(pages)) :
                                pages[i].key[1] # "" /\ pages[i].key[2] # ""}}

\* the most recently edited page of the group, whatever its language
NewestPage(pages, key) ==
    LET items == Grouped(pages, key)
        best == SelectSeq(items, LAMBDA id :
                    \A other \in Range(items) : pages[other].sort_key <= pages[id].sort_key)
    IN best[1]

\* sorted(pool, key=sort_key, reverse=True)[0]: the first page of the pool
\* among those with the greatest sort key
Keeper(pages, key) ==
    LET items == Grouped(pages, key)
        zh_items == SelectSeq(items, LAMBDA id : pages[id].is_zh)
        pool == IF zh_items # <<>> THEN zh_items ELSE items
        best == SelectSeq(pool, LAMBDA id :
                    \A other \in Range(pool) : pages[other].sort_key <= pages[id].sort_key)
    IN best[1]

\* index: the keeper's id for each key that has a page
BuildReportIndex(pages) == [key \in GroupedKeys(pages) |-> Keeper(pages, key)]

\* the keys of grouped, in the order of their first page in the query
KeyOrder(pages) ==
    LET firsts == SelectSeq(QueryDatabase(pages), LAMBDA id :
                      /\ pages[id].key \in GroupedKeys(pages)
                      /\ Grouped(pages, pages[id].key)[1] = id)
    IN [i \in 1..Len(firsts) |-> pages[firsts[i]].key]

\* duplicates: key by key, every page of the group that is not the keeper
BuildDuplicates(pages) ==
    Flatten([i \in 1..Len(KeyOrder(pages)) |->
        SelectSeq(Grouped(pages, KeyOrder(pages)[i]),
                  LAMBDA id : id # Keeper(pages, KeyOrder(pages)[i]))])

\* what one run leaves behind when it returns
SyncReturn(s, rc) ==
    [s EXCEPT !.pc = "ready", !.rcs = Append(@, rc),
              !.drys = Append(@, s.dry_run), !.index = <<>>,
              !.duplicates = <<>>, !.failed = 0, !.reports = <<>>, !.written = 0]

\* lines 470-475: one printed line "  - <title>: <preview>" per report
PreviewLines(run, reports) ==
    [i \in 1..Len(reports) |->
        [run |-> run, op |-> "preview", page |-> 0, ok |-> TRUE,
         key |-> ReportKey(reports[i]), title |-> reports[i].title,
         date |-> reports[i].date]]

\* lines 454-499: the gates, the dry-run return, the index and the duplicates
SyncBegin ==
    /\ sync.pc = "ready"
    /\ sync.run < 2
    /\ UNCHANGED <<call, api, incr, cmdVars>>
    /\ \E dry_run \in BOOLEAN :
        LET started == [sync EXCEPT !.run = @ + 1, !.dry_run = dry_run]
            reports == BuildReportsFromIncremental(sync.payload)
            duplicates == BuildDuplicates(sync.pages)
        IN IF ValidateIncrementalMechanism(sync.payload) # <<>>
           THEN sync' = SyncReturn(started, 1)
           ELSE IF EvaluatePayloadQuality(sync.payload) # <<>>
           THEN sync' = SyncReturn(started, 1)
           ELSE IF dry_run
           THEN sync' = SyncReturn([started EXCEPT
                                       !.log = @ \o PreviewLines(started.run, reports)], 0)
           ELSE sync' = [started EXCEPT
                   !.pc = IF duplicates # <<>> THEN "archive" ELSE "write",
                   !.index = BuildReportIndex(sync.pages),
                   !.duplicates = duplicates,
                   !.reports = reports]

\* a run that goes on to write whatever the archive calls did
ArchiveFailureIgnored(failed) == FALSE

\* line 499: if failed > 0: return 1
ArchiveFailed(failed) == failed > 0

\* _archive_duplicate_pages, one page per step; after the last page
\* lines 494-500 decide whether the run goes on
ArchiveDuplicate ==
    /\ sync.pc = "archive"
    /\ UNCHANGED <<call, api, incr, cmdVars>>
    /\ \E ok \in BOOLEAN :
        LET page_id == Head(sync.duplicates)
            done == [sync EXCEPT
                       !.duplicates = Tail(@),
                       !.failed = IF ok THEN @ ELSE @ + 1,
                       !.pages[page_id].archived = IF ok THEN TRUE ELSE @,
                       !.log = Append(@, [run |-> sync.run, op |-> "archive",
                                          page |-> page_id, ok |-> ok,
                                          key |-> sync.pages[page_id].key,
                                          title |-> <<>>, date |-> ""])]
        IN IF done.duplicates # <<>> THEN sync' = done
           ELSE IF ArchiveFailed(done.failed) THEN sync' = SyncReturn(done, 1)
           ELSE sync' = [done EXCEPT !.pc = "write"]

\* _write_report on a key without a page: create_page, then the index entry
CreateReport(s, report, ok) ==
    LET page_id == Len(s.pages) + 1 IN
    IF ok
    THEN [s EXCEPT
            !.pages = Append(@, [key |-> ReportKey(report),
                                 is_zh |-> ContainsCjk(report.title)
                                             \/ ContainsCjk(report.key_insights),
                                 sort_key |-> 2 + s.run, archived |-> FALSE]),
            !.index = [key \in DOMAIN @ \cup {ReportKey(report)} |->
                          IF key = ReportKey(report) THEN page_id ELSE @[key]],
            !.written = @ + 1,
            !.log = Append(@, [run |-> s.run, op |-> "create", page |-> page_id,
                               ok |-> TRUE, key |-> ReportKey(report),
                               title |-> report.title, date |-> report.date])]
    ELSE [s EXCEPT
            !.log = Append(@, [run |-> s.run, op |-> "create", page |-> 0,
                               ok |-> FALSE, key |-> ReportKey(report),
                               title |-> report.title, date |-> report.date])]

\* an upsert that never looks at the index
AlwaysCreate(s, report, page_id, ok) == CreateReport(s, report, ok)

\* _write_report on an indexed key: update_page, clear_page, append_blocks
UpdateReport(s, report, page_id, ok) ==
    IF ok
    THEN [s EXCEPT
            !.pages[page_id].is_zh =
                ContainsCjk(report.title) \/ ContainsCjk(report.key_insights),
            !.pages[page_id].sort_key = 2 + s.run,
            !.written = @ + 1,
            !.log = @ \o <<[run |-> s.run, op |-> "update", page |-> page_id,
                            ok |-> TRUE, key |-> ReportKey(report),
                            title |-> report.title, date |-> report.date],
                           [run |-> s.run, op |-> "clear", page |-> page_id,
                            ok |-> TRUE, key |-> ReportKey(report),
                            title |-> <<>>, date |-> ""],
                           [run |-> s.run, op |-> "append", page |-> page_id,
                            ok |-> TRUE, key |-> ReportKey(report),
                            title |-> <<>>, date |-> ""]>>]
    ELSE [s EXCEPT
            !.log = Append(@, [run |-> s.run, op |-> "update", page |-> page_id,
                               ok |-> FALSE, key |-> ReportKey(report),
                               title |-> report.title, date |-> report.date])]

\* a run that reports success whatever the write loop did
SyncWriteRcAlwaysZero(written, total) == 0

\* line 508: return 0 if written == len(reports) else 1
SyncWriteRc(written, total) == IF written = total THEN 0 ELSE 1

\* one pass of the write loop; after the last report the run returns
WriteReport ==
    /\ sync.pc = "write"
    /\ UNCHANGED <<call, api, incr, cmdVars>>
    /\ \E ok \in BOOLEAN :
        LET report == Head(sync.reports)
            key == ReportKey(report)
            wrote == IF key \in DOMAIN sync.index
                     THEN UpdateReport(sync, report, sync.index[key], ok)
                     ELSE CreateReport(sync, report, ok)
            done == [wrote EXCEPT !.reports = Tail(@)]
            total == Len(BuildReportsFromIncremental(sync.payload))
        IN IF done.reports # <<>> THEN sync' = done
           ELSE sync' = SyncReturn(done, SyncWriteRc(done.written, total))

SyncNext == SyncBegin \/ ArchiveDuplicate \/ WriteReport

SpecSync == SyncInit /\ [][SyncNext]_vars

----------------------------------------------------------------------------
(* The diagnose commands.  Each command is one step: it reads the          *)
(* conversation store and the sidecar directories and leaves its files     *)
(* behind.  Dates are day numbers; the clock counts the commands run.      *)

MaxRuns == 2

\* data/conversations as load_conversations returns it: newest first
Conversations ==
    << [session_id |-> "s1", created_at |-> 20],
       [session_id |-> "s2", created_at |-> 10] >>

StoreSessionIds == {Conversations[i].session_id : i \in 1..Len(Conversations)}

Today == 30

\* no file at a path
NoFile == [schema_version |-> "no-file"]

\* run_dir / f"api_{provider}_{kind}.json"
ApiFile(run_id, provider, kind) == <<run_id, "api", provider, kind>>

\* run_dir / f"incremental_api_{provider}_{kind}.json"
IncrementalApiFile(run_id, provider, kind) == <<run_id, "incremental_api", provider, kind>>

\* _parse_window_to_since; MissingNum is None
ParseWindowToSince(window) ==
    CASE window = "30d" -> Today - 30
      [] window = "7d" -> Today - 7
      [] OTHER -> MissingNum

LoadConversations(since, until) ==
    SelectSeq(Conversations, LAMBDA conv :
        /\ (since = MissingNum \/ conv.created_at >= since)
        /\ (until = MissingNum \/ conv.created_at <= until))

\* path.write_text(json.dumps(payload, ...))
WriteJson(files, path, payload) ==
    [f \in DOMAIN files \cup {path} |-> IF f = path THEN payload ELSE files[f]]

SessionNeedsBackfill(files, session_id, force_refresh) ==
    \/ force_refresh
    \/ files[session_id] = NoFile
    \/ ValidateSessionMechanism(files[session_id]) # <<>>
    \/ ~SessionHasMechanismSignal(files[session_id])

\* args.run_id or "backfill-<utc timestamp>"
BackfillRunId(args, t) ==
    IF args.run_id # Missing THEN args.run_id
    ELSE CASE t = 1 -> "backfill-t1" [] t = 2 -> "backfill-t2"
           [] t = 3 -> "backfill-t3" [] OTHER -> "backfill-t4"

WriteRunBundle(files, run_id, digests, t) ==
    WriteJson(
        WriteJson(files, <<run_id, "session_digests.json">>,
                  [schema_version |-> "diagnose-run.v1", run_id |-> run_id,
                   created_at |-> t, session_count |-> Len(digests),
                   sessions |-> digests]),
        <<run_id, "README.md">>,
        [schema_version |-> "readme", run_id |-> run_id, sessions |-> Len(digests)])

\* run_api as a whole for a CLI provider: every digest is inferred once,
\* the sessions of `failing` raise after their retries
RunApi(files, run_id, provider, dry_run, allow_partial, failing, t) ==
    LET sessions == files[<<run_id, "session_digests.json">>].sessions
        idxs == SelectSeq([i \in 1..Len(sessions) |-> i],
                          LAMBDA i : i \in SessionItems(sessions))
        with_preview ==
            WriteJson(files, ApiFile(run_id, provider, "preview"),
                      [schema_version |-> "diagnose-api-preview.v1",
                       run_id |-> run_id, provider |-> provider,
                       model |-> DefaultModel(provider), dry_run |-> dry_run,
                       session_count |-> Len(sessions), generated_at |-> t])
        ok_idxs == SelectSeq(idxs, LAMBDA i : sessions[i].session_id \notin failing)
        bad_idxs == SelectSeq(idxs, LAMBDA i : sessions[i].session_id \in failing)
        results == [k \in 1..Len(ok_idxs) |->
                      <<ok_idxs[k],
                        NormalizeSessionOutput(
                            RawOutput(answer[sessions[ok_idxs[k]].session_id],
                                      sessions[ok_idxs[k]]),
                            sessions[ok_idxs[k]], run_id, provider,
                            DefaultModel(provider), "api", t)>>]
        errors_payload == [k \in 1..Len(bad_idxs) |->
                              [session_id |-> sessions[bad_idxs[k]].session_id,
                               error |-> ErrTimedOut]]
        with_results ==
            WriteJson(with_preview, ApiFile(run_id, provider, "results"),
                      [schema_version |-> "session-mechanism-batch.v1",
                       run_id |-> run_id, sessions |-> OrderedResults(results)])
        with_errors ==
            IF errors_payload # <<>>
            THEN WriteJson(with_results, ApiFile(run_id, provider, "errors"),
                           [schema_version |-> "diagnose-api-errors.v1",
                            run_id |-> run_id, provider |-> provider,
                            model |-> DefaultModel(provider),
                            failed_sessions |-> errors_payload])
            ELSE with_results
    IN IF dry_run THEN [files |-> with_preview, rc |-> 0, inferred |-> FALSE]
       ELSE IF idxs = <<>> THEN [files |-> with_preview, rc |-> 1, inferred |-> FALSE]
       ELSE [files |-> with_errors,
             rc |-> RunApiRc(errors_payload, results, allow_partial),
             inferred |-> TRUE]

\* the setdefault calls of lines 897-910
ApplyDefaults(item, run_id, t) ==
    [item EXCEPT
        !.schema_version = IF @ = Missing THEN SESSION_SCHEMA ELSE @,
        !.generated_by = IF @ = NoGeneratedBy
                         THEN [engine |-> "api", provider |-> "api", model |-> "skill",
                               run_id |-> run_id, generated_at |-> t]
                         ELSE @]

\* every record is kept, valid or not
AllItems(records) == records

\* valid_items: the records without validation errors
ValidItems(records) ==
    SelectSeq(records, LAMBDA record : ValidateSessionMechanism(record) = <<>>)

InvalidRecords(records) ==
    SelectSeq(records, LAMBDA record : ValidateSessionMechanism(record) # <<>>)

\* lines 963-974: each valid record goes to <session_id>.json, later ones last
RECURSIVE WriteSidecars(_, _)
WriteSidecars(files, valid_items) ==
    IF valid_items = <<>> THEN files
    ELSE WriteSidecars(WriteJson(files, Head(valid_items).session_id, Head(valid_items)),
                       Tail(valid_items))

\* an apply step that goes on whatever the validator said
ApplyNeverRejects(invalid_records, allow_partial) == FALSE

\* line 930: if invalid and not allow_partial: return 1
ApplyRejects(invalid_records, allow_partial) == invalid_records # <<>> /\ ~allow_partial

ApplySessionResults(session_files, job_files, run_id, provider, allow_partial, t) ==
    LET items == job_files[ApiFile(run_id, provider, "results")].sessions
        records == [i \in 1..Len(items) |-> ApplyDefaults(items[i], run_id, t)]
        invalid_records == InvalidRecords(records)
        valid_items == ValidItems(records)
        with_invalid ==
            IF invalid_records # <<>>
            THEN WriteJson(job_files, <<run_id, "invalid_session_mechanisms.json">>,
                    [schema_version |-> "diagnose-invalid-session-mechanisms.v1",
                     run_id |-> run_id, generated_at |-> t,
                     invalid_records |-> [i \in 1..Len(invalid_records) |->
                                             invalid_records[i].session_id]])
            ELSE job_files
        with_summary ==
            WriteJson(with_invalid, <<run_id, "apply_summary.json">>,
                      [schema_version |-> "diagnose-apply-summary.v1",
                       run_id |-> run_id, applied_at |-> t,
                       records_valid |-> Len(valid_items),
                       records_invalid |-> Len(invalid_records)])
        unchanged == [sidecars |-> session_files, jobs |-> job_files, validated |-> {}]
    IN IF items = <<>> THEN unchanged @@ [rc |-> 2]
       ELSE IF ApplyRejects(invalid_records, allow_partial) THEN unchanged @@ [rc |-> 1]
       ELSE IF valid_items = <<>>
       THEN [unchanged EXCEPT !.jobs = with_invalid] @@ [rc |-> 1]
       ELSE [sidecars |-> WriteSidecars(session_files, valid_items),
             jobs |-> with_summary,
             validated |-> Range(ValidItems(records)),
             rc |-> 0]

BackfillArgs ==
    [window : {"30d"}, limit : {0}, run_id : {Missing, "rerun"},
     force_refresh : {FALSE}, allow_partial : BOOLEAN, dry_run : {FALSE},
     provider : {"claude_cli"}]

\* the sessions whose provider call can time out on every attempt
Flaky == {"s2"}

\* what the last command was and how it ended; written: the incremental
\* sidecar paths it called _write_json on
LastOf(cmd, t, args, rc) ==
    [cmd |-> cmd, n |-> t, args |-> args, rc |-> rc, api_rc |-> MissingNum,
     targets |-> {}, failed |-> {}, validated |-> {}, payload |-> NoFile,
     synced |-> FALSE, written |-> {}]

\* conversations[: args.limit] when the limit is positive
LimitConversations(conversations, limit) ==
    IF limit > 0 THEN SubSeq(conversations, 1, Min(limit, Len(conversations)))
    ELSE conversations

NeedingBackfill(conversations, files, force_refresh) ==
    SelectSeq(conversations, LAMBDA conv :
        /\ conv.session_id # ""
        /\ SessionNeedsBackfill(files, conv.session_id, force_refresh))

\* a selection that cuts the list of sessions needing backfill to the limit
SelectTargetsThenLimit(loaded, files, limit, force_refresh) ==
    LimitConversations(NeedingBackfill(loaded, files, force_refresh), limit)

\* lines 1010-1019: the limit first, then the needs-backfill check
SelectTargets(loaded, files, limit, force_refresh) ==
    NeedingBackfill(LimitConversations(loaded, limit), files, force_refresh)

\* cmd_backfill with the given arguments; the provider calls for the
\* sessions of `failing` raise
Backfill(args, failing) ==
    /\ now < MaxRuns
    /\ UNCHANGED <<call, api, incr, sync, incrementals, answer, pipe, val, dig, wr>>
    /\ LET t == now + 1
           since == ParseWindowToSince(args.window)
           until == IF since # MissingNum THEN Today ELSE MissingNum
           loaded == LoadConversations(since, until)
           target_conversations ==
               SelectTargets(loaded, sidecars, args.limit, args.force_refresh)
           target_ids == {target_conversations[i].session_id :
                             i \in 1..Len(target_conversations)}
           run_id == BackfillRunId(args, t)
           digests == [i \in 1..Len(target_conversations) |->
                          Digest(target_conversations[i].created_at,
                                 target_conversations[i].session_id)]
           ran == RunApi(WriteRunBundle(jobs, run_id, digests, t), run_id,
                         args.provider, args.dry_run, args.allow_partial, failing, t)
           applied == ApplySessionResults(sidecars, ran.files, run_id,
                                          args.provider, args.allow_partial, t)
           ended == [LastOf("backfill", t, args, 0) EXCEPT !.targets = target_ids]
       IN /\ failing \subseteq target_ids
          /\ args.dry_run => failing = {}
          /\ now' = t
          /\ IF target_conversations = <<>>
             THEN /\ UNCHANGED <<sidecars, jobs>>
                  /\ last' = ended
             ELSE IF ran.rc # 0 \/ args.dry_run
             THEN /\ UNCHANGED sidecars
                  /\ jobs' = ran.files
                  /\ last' = [ended EXCEPT !.rc = ran.rc, !.api_rc = ran.rc,
                                           !.failed = failing]
             ELSE /\ sidecars' = applied.sidecars
                  /\ jobs' = applied.jobs
                  /\ last' = [ended EXCEPT !.rc = applied.rc, !.api_rc = ran.rc,
                                           !.failed = failing,
                                           !.validated = applied.validated]

CmdBackfill == \E args \in BackfillArgs, failing \in SUBSET Flaky : Backfill(args, failing)

\* f"{since or 'open'}_to_{until or 'today'}" for the dates of the model
RangePeriodId(since, until) ==
    CASE since = Today - 30 /\ until = Today -> "d0_to_d30"
      [] since = Today - 7 /\ until = Today -> "d23_to_d30"
      [] since = Today - 30 /\ until = Today + 1 -> "d0_to_d31"
      [] since = Today - 7 /\ until = Today + 1 -> "d23_to_d31"
      [] since = 15 /\ until = MissingNum -> "d15_to_today"
      [] since = 15 /\ until = Today -> "d15_to_d30"
      [] OTHER -> "open_to_today"

\* f"rolling_{window}"
RollingPeriodId(window) ==
    CASE window = "30d" -> "rolling_30d"
      [] window = "7d" -> "rolling_7d"
      [] OTHER -> "rolling_all-time"

\* _build_period_id
BuildPeriodId(since, until, window, explicit_period_id) ==
    IF explicit_period_id # Missing /\ explicit_period_id # "" THEN explicit_period_id
    ELSE IF since # MissingNum \/ until # MissingNum THEN RangePeriodId(since, until)
    ELSE IF window # Missing /\ window # "" THEN RollingPeriodId(window)
    ELSE "rolling_30d"

\* cmd_incremental lines 1076-1096 without --since and --until: the window
\* becomes a date range ending today (UTC) before the period id is built
IncrementalPeriodId(window, explicit_period_id) ==
    LET since == ParseWindowToSince(window)
        until == IF since # MissingNum THEN Today ELSE MissingNum
    IN BuildPeriodId(since, until, window, explicit_period_id)

\* args.run_id or f"incremental-{period_id}"
IncrementalRunId(args, period_id) ==
    IF args.run_id # Missing THEN args.run_id
    ELSE CASE period_id = "2026-W01" -> "incremental-2026-W01"
           [] period_id = "d0_to_d30" -> "incremental-d0_to_d30"
           [] OTHER -> "incremental-other"

\* sorted(glob("*.json")), unreadable and blocked files left out
LoadSessionSidecars(files) ==
    SelectSeq(SelectSeq(<<"s1", "s2">>, LAMBDA sid : sid \in DOMAIN files),
              LAMBDA sid : /\ files[sid] # NoFile
                           /\ GeneratedByBlockReason(files[sid].generated_by) = None)

\* the session ids of the valid sidecars whose created_at is in the period
FilteredSessions(files, since, until) ==
    SelectSeq(LoadSessionSidecars(files), LAMBDA sid :
        /\ ValidateSessionMechanism(files[sid]) = <<>>
        /\ files[sid].created_at # 0
        /\ (since = MissingNum \/ files[sid].created_at >= since)
        /\ (until = MissingNum \/ files[sid].created_at <= until + 1))

Max(a, b) == IF a > b THEN a ELSE b

BuildIncrementalSkillInput(period_id, run_id, sessions_total, filtered, t) ==
    [schema_version |-> "incremental-input.v1", period_id |-> period_id,
     generated_at |-> t, source_run_id |-> run_id,
     coverage |-> [sessions_total |-> Max(sessions_total, Len(filtered)),
                   sessions_with_mechanism |-> Len(filtered)],
     sessions |-> filtered]

\* run_incremental_api as a whole for a CLI provider and at most
\* INCREMENTAL_CHUNK_SIZE sessions: one provider call
RunIncrementalApi(files, run_id, provider, dry_run, input, outcome, t) ==
    LET with_preview ==
            WriteJson(
                WriteJson(files, <<run_id, "incremental_input.json">>, input),
                IncrementalApiFile(run_id, provider, "preview"),
                [schema_version |-> "diagnose-incremental-preview.v1",
                 run_id |-> run_id, provider |-> provider, dry_run |-> dry_run,
                 period_id |-> input.period_id, generated_at |-> t])
    IN IF dry_run THEN [files |-> with_preview, rc |-> 0, result |-> NoFile]
       ELSE IF outcome = "raise" THEN [files |-> with_preview, rc |-> 1, result |-> NoFile]
       ELSE [files |-> WriteJson(with_preview,
                                 IncrementalApiFile(run_id, provider, "result"),
                                 IncrPayload(outcome)),
             rc |-> 0, result |-> IncrPayload(outcome)]

\* lines 1163-1183: the setdefault calls and the report sort
FillEnvelope(payload, period_id, run_id, since, until, sessions_total, filtered, t) ==
    LET with_period_id == IF payload.period_id = Missing THEN period_id
                          ELSE payload.period_id
    IN [payload EXCEPT
          !.schema_version = IF @ = Missing THEN INCREMENTAL_SCHEMA ELSE @,
          !.period_id = with_period_id,
          !.week = IF @ = Missing THEN StrOr(with_period_id, period_id) ELSE @,
          !.source_run_id = IF @ = Missing THEN run_id ELSE @,
          !.generated_at = IF @ = MissingNum THEN t ELSE @,
          !.period.since = IF since # MissingNum /\ @ = MissingNum THEN since ELSE @,
          !.period.until = IF until # MissingNum /\ @ = MissingNum THEN until ELSE @,
          !.coverage.sessions_total = IF @ = MissingNum THEN sessions_total ELSE @,
          !.coverage.sessions_with_mechanism = IF @ = MissingNum THEN filtered ELSE @,
          !.reports = SortReports(@)]

\* a gate that lets every payload through
ValidationIgnored(errors) == FALSE

\* line 1186: if errors
ValidationFailed(errors) == errors # <<>>

IncrementalArgs ==
    [window : {"30d"}, period_id : {Missing}, run_id : {Missing},
     result_file : {Missing, "two_reports", "layer_mismatch", "stamped"},
     sync_report : BOOLEAN, dry_run : {FALSE}, provider : {"claude_cli"}]

\* what the provider answers to the incremental call of this run
IncrementalOutcomes == {"one_report", "bare", "raise"}

\* what sync_reports_from_incremental can return for the payload
SyncReturns(payload, dry_run) ==
    IF EvaluatePayloadQuality(payload) # <<>> THEN {1}
    ELSE IF dry_run THEN {0}
    ELSE {0, 1}

\* cmd_incremental
CmdIncremental ==
    /\ now < MaxRuns
    /\ UNCHANGED <<call, api, incr, sync, sidecars, answer, pipe, val, dig, wr>>
    /\ \E args \in IncrementalArgs, outcome \in IncrementalOutcomes :
        /\ args.result_file # Missing => outcome = "raise"
        /\ LET t == now + 1
               since == ParseWindowToSince(args.window)
               until == IF since # MissingNum THEN Today ELSE MissingNum
               period_id == IncrementalPeriodId(args.window, args.period_id)
               run_id == IncrementalRunId(args, period_id)
               source_conversations == LoadConversations(since, until)
               filtered == FilteredSessions(sidecars, since, until)
               from_file == args.result_file # Missing
               ran == RunIncrementalApi(jobs, run_id, args.provider, args.dry_run,
                          BuildIncrementalSkillInput(period_id, run_id,
                              Len(source_conversations), filtered, t),
                          outcome, t)
               raw == IF from_file THEN IncrPayload(args.result_file) ELSE ran.result
               coerced == CoerceIncrementalPayload(raw)
               payload == FillEnvelope(coerced, period_id, run_id, since, until,
                                       Len(source_conversations), Len(filtered), t)
               errors == ValidateIncrementalMechanism(payload)
               ended == LastOf("incremental", t, args, 0)
           IN /\ now' = t
              /\ jobs' = IF from_file THEN jobs ELSE ran.files
              /\ IF ~from_file /\ (ran.rc # 0 \/ args.dry_run)
                 THEN /\ UNCHANGED incrementals
                      /\ last' = [ended EXCEPT !.rc = ran.rc]
                 ELSE IF coerced = EmptyPayload
                 THEN /\ UNCHANGED incrementals
                      /\ last' = [ended EXCEPT !.rc = 2]
                 ELSE IF from_file /\ args.period_id # Missing
                         /\ StrOr(coerced.period_id, coerced.week) # args.period_id
                 THEN /\ UNCHANGED incrementals
                      /\ last' = [ended EXCEPT !.rc = 2]
                 ELSE IF ValidationFailed(errors)
                 THEN /\ UNCHANGED incrementals
                      /\ last' = [ended EXCEPT !.rc = 1, !.payload = payload]
                 ELSE /\ incrementals' = IF args.dry_run THEN incrementals
                                         ELSE WriteJson(incrementals, period_id, payload)
                      /\ \E sync_rc \in IF args.sync_report
                                        THEN SyncReturns(payload, args.dry_run)
                                        ELSE {0} :
                            last' = [ended EXCEPT !.rc = sync_rc,
                                                  !.payload = payload,
                                                  !.validated = {payload},
                                                  !.synced = args.sync_report,
                                                  !.written = IF args.dry_run THEN {}
                                                              ELSE {period_id}]

\* the provider's answer per session is fixed: it is a function of the digest
Answers ==
    { [s1 |-> "good", s2 |-> "good"], [s1 |-> "tbd", s2 |-> "good"],
      [s1 |-> "good", s2 |-> "no_why"] }

CmdInit ==
    /\ call = Idle
    /\ api = Idle
    /\ incr = Idle
    /\ sync = Idle
    /\ sidecars = [sid \in StoreSessionIds |-> NoFile]
    /\ incrementals = <<>>
    /\ jobs = <<>>
    /\ now = 0
    /\ last = LastOf("none", 0, <<>>, 0)
    /\ answer \in Answers
    /\ pipe = Idle
    /\ val = Idle
    /\ dig = Idle
    /\ wr = Idle

Next == CmdBackfill \/ CmdIncremental

Spec == CmdInit /\ [][Next]_vars

----------------------------------------------------------------------------
(* Backfill runs with --limit and --force-refresh, against a provider that *)
(* may answer with the identity of another session.                        *)

LimitedBackfillArgs ==
    [window : {"30d"}, limit : {0, 1}, run_id : {Missing},
     force_refresh : BOOLEAN, allow_partial : BOOLEAN, dry_run : {FALSE},
     provider : {"claude_cli"}]

AnswersOfAnySession ==
    Answers \cup { [s1 |-> "foreign", s2 |-> "good"], [s1 |-> "good", s2 |-> "foreign"] }

BackfillInit ==
    /\ call = Idle
    /\ api = Idle
    /\ incr = Idle
    /\ sync = Idle
    /\ sidecars = [sid \in StoreSessionIds |-> NoFile]
    /\ incrementals = <<>>
    /\ jobs = <<>>
    /\ now = 0
    /\ last = LastOf("none", 0, <<>>, 0)
    /\ answer \in AnswersOfAnySession
    /\ pipe = Idle
    /\ val = Idle
    /\ dig = Idle
    /\ wr = Idle

CmdBackfillLimited ==
    \E args \in LimitedBackfillArgs, failing \in SUBSET Flaky : Backfill(args, failing)

SpecBackfill == BackfillInit /\ [][CmdBackfillLimited]_vars

----------------------------------------------------------------------------
(* The order of the reports: `incremental --result-file F --sync-report`   *)
(* on a result file that lists its reports in any order, followed by the   *)
(* sync of the persisted payload; or the sync entry point called on such   *)
(* a payload directly.                                                     *)

\* the reports a result file can list
ReportPool ==
    { RootCauseReport,
      [RootCauseReport EXCEPT !.period = "2026-W02"],
      TaskReport,
      [TaskReport EXCEPT !.date = "2026-01-05"],
      [TaskReport EXCEPT !.title = <<"Trigger", "map">>, !.period = "2026-W02"],
      [TaskReport EXCEPT !.dimension = "incremental-misc"] }

MaxReports == 3

\* the lists of distinct reports, in every order
ReportOrders ==
    {reports \in UNION {[1..n -> ReportPool] : n \in 1..MaxReports} :
        \A i, j \in DOMAIN reports : i # j => reports[i] # reports[j]}

ReportsInit ==
    /\ call = Idle
    /\ api = Idle
    /\ incr = Idle
    /\ sidecars = [sid \in StoreSessionIds |-> NoFile]
    /\ incrementals = <<>>
    /\ jobs = <<>>
    /\ now = 0
    /\ last = LastOf("none", 0, <<>>, 0)
    /\ answer = Idle
    /\ pipe = Idle
    /\ val = Idle
    /\ dig = Idle
    /\ wr = Idle
    /\ \E reports \in ReportOrders, has_page \in BOOLEAN, direct \in BOOLEAN :
        sync = [pc |-> IF direct THEN "ready" ELSE "provided", run |-> 0,
                dry_run |-> FALSE,
                payload |-> [IncrPayload("two_reports") EXCEPT !.reports = reports],
                pages |-> IF has_page
                          THEN [i \in 1..2 |->
                                  [key |-> <<"incremental-task-stratification",
                                             "2026-W01">>,
                                   is_zh |-> TRUE, sort_key |-> i, archived |-> FALSE]]
                          ELSE <<>>,
                index |-> <<>>, duplicates |-> <<>>, failed |-> 0,
                reports |-> <<>>, written |-> 0,
                log |-> <<>>, rcs |-> <<>>, drys |-> <<>>]

\* cmd_incremental with --result-file and --sync-report, up to the sync call
PersistIncremental ==
    /\ sync.pc = "provided"
    /\ UNCHANGED <<call, api, incr, sidecars, jobs, answer, pipe, val, dig, wr>>
    /\ LET t == now + 1
           args == [window |-> "30d", period_id |-> Missing, run_id |-> Missing,
                    result_file |-> "reports", sync_report |-> TRUE,
                    dry_run |-> FALSE, provider |-> "claude_cli"]
           since == ParseWindowToSince(args.window)
           until == IF since # MissingNum THEN Today ELSE MissingNum
           period_id == IncrementalPeriodId(args.window, args.period_id)
           run_id == IncrementalRunId(args, period_id)
           source_conversations == LoadConversations(since, until)
           filtered == FilteredSessions(sidecars, since, until)
           coerced == CoerceIncrementalPayload(sync.payload)
           payload == FillEnvelope(coerced, period_id, run_id, since, until,
                                   Len(source_conversations), Len(filtered), t)
           errors == ValidateIncrementalMechanism(payload)
           ended == LastOf("incremental", t, args, 0)
       IN /\ now' = t
          /\ IF ValidationFailed(errors)
             THEN /\ UNCHANGED incrementals
                  /\ last' = [ended EXCEPT !.rc = 1, !.payload = payload]
                  /\ sync' = [sync EXCEPT !.pc = "rejected"]
             ELSE /\ incrementals' = WriteJson(incrementals, period_id, payload)
                  /\ last' = [ended EXCEPT !.payload = payload,
                                           !.validated = {payload},
                                           !.synced = TRUE,
                                           !.written = {period_id}]
                  /\ sync' = [sync EXCEPT !.pc = "ready", !.payload = payload]

ReportsNext == PersistIncremental \/ SyncBegin \/ ArchiveDuplicate \/ WriteReport

SpecReports == ReportsInit /\ [][ReportsNext]_vars

----------------------------------------------------------------------------
(* The pipeline `run` chain of pipeline.py.  A stage is a child process    *)
(* or an in-process call; the chain waits for it and reads its return      *)
(* code.                                                                   *)

StageOrder ==
    <<"ingest_claude_code", "ingest_codex", "enrich_heuristic",
      "diagnose_backfill", "diagnose_incremental", "sync_stats", "dashboard">>

PipelineArgs ==
    [mode : {"incremental", "full"}, window : {"30d", "7d"},
     since : {MissingNum, 15},
     skip_ingest : BOOLEAN, skip_enrich : BOOLEAN, skip_backfill : BOOLEAN]

\* what a stage can return
StageRcs == {0, 1, 2}

\* the `if not args.skip_...` tests around stages 1 to 3
Skipped(args, stage) ==
    CASE stage \in {"ingest_claude_code", "ingest_codex"} -> args.skip_ingest
      [] stage = "enrich_heuristic" -> args.skip_enrich
      [] stage = "diagnose_backfill" -> args.skip_backfill
      [] OTHER -> FALSE

\* the position in StageOrder of the first stage from i on that is not
\* skipped; 0 after the last stage
RECURSIVE NextStageFrom(_, _)
NextStageFrom(args, i) ==
    IF i > Len(StageOrder) THEN 0
    ELSE IF Skipped(args, StageOrder[i]) THEN NextStageFrom(args, i + 1)
    ELSE i

\* window = "all-time" if mode == "full" else args.window
PipelineWindow(args) == IF args.mode = "full" THEN "all-time" ELSE args.window

\* _derive_stats_period_label; local_today is datetime.now().date()
DeriveStatsPeriodLabel(since, window, local_today) ==
    LET from_window == since = MissingNum /\ window # ""
        parsed_since == ParseWindowToSince(window)
        since_arg == IF from_window THEN parsed_since ELSE since
        until_arg == IF from_window /\ parsed_since # MissingNum THEN local_today
                     ELSE MissingNum
    IN BuildPeriodId(since_arg, until_arg, window, Missing)

\* a chain that goes on whatever a stage returned
StageFailureIgnored(rc) == FALSE

\* if rc != 0: return rc
StageFailed(rc) == rc # 0

PipelineInit ==
    /\ call = Idle
    /\ api = Idle
    /\ incr = Idle
    /\ sync = Idle
    /\ sidecars = Idle
    /\ incrementals = Idle
    /\ jobs = Idle
    /\ now = 0
    /\ last = Idle
    /\ answer = Idle
    /\ val = Idle
    /\ dig = Idle
    /\ wr = Idle
    /\ \E args \in PipelineArgs, local_today \in {Today, Today + 1} :
          pipe = [pc |-> "next", args |-> args, local_today |-> local_today,
                  stage |-> NextStageFrom(args, 1), started |-> <<>>, rcs |-> <<>>,
                  rc |-> MissingNum, incremental_period |-> Missing,
                  stats_period |-> Missing]

\* the chain starts its next stage; the incremental stage is started with
\* --window only, the stats stage with the derived period label
StageStart ==
    /\ pipe.pc = "next"
    /\ UNCHANGED <<call, api, incr, sync, sidecars, incrementals, jobs, now, last,
                   answer, val, dig, wr>>
    /\ LET stage == StageOrder[pipe.stage]
           window == PipelineWindow(pipe.args)
       IN pipe' = [pipe EXCEPT
             !.pc = "running",
             !.started = Append(@, stage),
             !.incremental_period =
                 IF stage = "diagnose_incremental"
                 THEN IncrementalPeriodId(window, Missing) ELSE @,
             !.stats_period =
                 IF stage = "sync_stats"
                 THEN DeriveStatsPeriodLabel(pipe.args.since, window, pipe.local_today)
                 ELSE @]

\* the stage returns; the chain returns with it or moves on
StageFinish ==
    /\ pipe.pc = "running"
    /\ UNCHANGED <<call, api, incr, sync, sidecars, incrementals, jobs, now, last,
                   answer, val, dig, wr>>
    /\ \E rc \in StageRcs :
        LET returned == [pipe EXCEPT !.rcs = Append(@, rc)]
            following == NextStageFrom(pipe.args, pipe.stage + 1)
        IN IF StageFailed(rc)
           THEN pipe' = [returned EXCEPT !.pc = "done", !.rc = rc]
           ELSE IF following = 0
           THEN pipe' = [returned EXCEPT !.pc = "done", !.rc = 0]
           ELSE pipe' = [returned EXCEPT !.pc = "next", !.stage = following]

PipelineNext == StageStart \/ StageFinish

SpecPipeline == PipelineInit /\ [][PipelineNext]_vars

----------------------------------------------------------------------------
(* run_api and run_incremental_api side by side: one run of either.        *)

SpecProviders == (ApiInit \/ IncrInit) /\ [][ApiNext \/ IncrNext]_vars

----------------------------------------------------------------------------
(* validate_session_mechanism applied to one payload.                      *)

\* a record as run_api hands it over: complete and accepted
ValidPayload ==
    NormalizeSessionOutput(RawOutput("good", Digest(20, "s1")), Digest(20, "s1"),
                           "run-1", "claude_cli", DefaultModel("claude_cli"), "api", 1)

SummaryTexts == { <<"agent", "loops">>, <<"TBD">>, <<"a", "Placeholder", "summary">> }

HypothesisTexts == { <<"no", "new", "evidence">>, <<"insufficient-evidence">> }

SnippetTexts == { <<"same", " ", "command", "again">>, <<"no", "validated", "snippet">> }

\* the how_to_improve field that carries its "-missing" token, if any
ActionFields == {"none", "trigger", "action", "expected_gain", "validation_window"}

EngineValues == {"api", "manual", " Manual ", "Template"}

ProviderValues == {"claude_cli", "api-mock", "MOCK"}

RunIdValues == {"run-1", "mock-backfill", "RUN-Mock-Backfill-7"}

SessionPayload(summary, hypothesis, snippet, field, engine, provider, run_id) ==
    [ValidPayload EXCEPT
        !.summary = summary,
        !.why[1].hypothesis = hypothesis,
        !.why[1].evidence[1].snippet = snippet,
        !.how_to_improve[1].trigger =
            IF field = "trigger" THEN <<"trigger-missing">> ELSE @,
        !.how_to_improve[1].action =
            IF field = "action" THEN <<"action-missing">> ELSE @,
        !.how_to_improve[1].expected_gain =
            IF field = "expected_gain" THEN <<"gain-missing">> ELSE @,
        !.how_to_improve[1].validation_window =
            IF field = "validation_window" THEN <<"window-missing">> ELSE @,
        !.generated_by.engine = engine,
        !.generated_by.provider = provider,
        !.generated_by.run_id = run_id]

ValidateInit ==
    /\ sidecars = Idle
    /\ incrementals = Idle
    /\ jobs = Idle
    /\ now = 0
    /\ last = Idle
    /\ answer = Idle
    /\ pipe = Idle
    /\ dig = Idle
    /\ wr = Idle
    /\ call = Idle
    /\ api = Idle
    /\ incr = Idle
    /\ sync = Idle
    /\ \E summary \in SummaryTexts, hypothesis \in HypothesisTexts,
          snippet \in SnippetTexts, field \in ActionFields, engine \in EngineValues,
          provider \in ProviderValues, run_id \in RunIdValues :
        val = [pc |-> "call",
               payload |-> SessionPayload(summary, hypothesis, snippet, field,
                                          engine, provider, run_id),
               errors |-> <<>>]

\* errors = validate_session_mechanism(payload)
ValidateSession ==
    /\ val.pc = "call"
    /\ UNCHANGED <<call, api, incr, sync, sidecars, incrementals, jobs, now, last,
                   answer, pipe, dig, wr>>
    /\ val' = [val EXCEPT !.pc = "done",
                          !.errors = ValidateSessionMechanism(val.payload)]

SpecValidate == ValidateInit /\ [][ValidateSession]_vars

----------------------------------------------------------------------------
(* validate_incremental_mechanism applied to one payload: a payload of one *)
(* or two reports, each with at most one deviation from a valid report.    *)

ReportDefects ==
    {"none", "unknown_dimension", "no_dimension", "padded_dimension",
     "layer_mismatch", "padded_layer", "no_layer", "blank_title",
     "blank_insights", "no_detail", "detail_text_only", "blank_period",
     "blank_date", "own_period", "too_many_lines", "evidence_dump",
     "negative_conversations"}

\* 14 of 20 lines quote a session id
EvidenceDumpLines ==
    [i \in 1..20 |-> IF i <= 14 THEN <<"s1", "#T1", "retry">>
                     ELSE <<"trigger", "two", "failures">>]

ReportWith(report, defect) ==
    CASE defect = "unknown_dimension" -> [report EXCEPT !.dimension = "incremental-misc"]
      [] defect = "no_dimension" -> [report EXCEPT !.dimension = Missing]
      [] defect = "padded_dimension" ->
            [report EXCEPT !.dimension = " incremental-root-causes ", !.layer = "L3"]
      [] defect = "layer_mismatch" ->
            [report EXCEPT !.layer = IF @ = "L3" THEN "L2" ELSE "L3"]
      [] defect = "padded_layer" ->
            [report EXCEPT !.dimension = "incremental-root-causes", !.layer = " L3 "]
      [] defect = "no_layer" -> [report EXCEPT !.layer = ""]
      [] defect = "blank_title" -> [report EXCEPT !.title = <<" ">>]
      [] defect = "blank_insights" -> [report EXCEPT !.key_insights = <<>>]
      [] defect = "no_detail" -> [report EXCEPT !.detail_lines = << <<" ">> >>]
      [] defect = "detail_text_only" ->
            [detail_text |-> <<"trigger", "two", "failures">>]
                @@ [report EXCEPT !.detail_lines = <<>>]
      [] defect = "blank_period" -> [report EXCEPT !.period = ""]
      [] defect = "blank_date" -> [report EXCEPT !.date = ""]
      [] defect = "own_period" -> [report EXCEPT !.period = "2026-W02"]
      [] defect = "too_many_lines" ->
            [report EXCEPT !.detail_lines =
                [i \in 1..(MAX_DETAIL_LINES_PER_REPORT + 1) |-> <<"trigger", "again">>]]
      [] defect = "evidence_dump" -> [report EXCEPT !.detail_lines = EvidenceDumpLines]
      [] defect = "negative_conversations" ->
            [conversations_analyzed |-> -1] @@ report
      [] OTHER -> report

\* the reports after the first: none, a report of another dimension, or a
\* report of the first one's dimension
SecondReports == {"absent", "task", "root", "root_own_period"}

ReportsOf(defect, second) ==
    <<ReportWith(RootCauseReport, defect)>>
    \o (CASE second = "task" -> <<TaskReport>>
          [] second = "root" -> <<RootCauseReport>>
          [] second = "root_own_period" -> <<ReportWith(RootCauseReport, "own_period")>>
          [] OTHER -> <<>>)

SchemaVersions == {INCREMENTAL_SCHEMA, "incremental-mechanism.v0"}

\* <<period_id, week>>
PeriodNames ==
    { <<"2026-W01", Missing>>, <<Missing, "2026-W02">>, <<"", "2026-W02">>,
      <<Missing, Missing>>, <<"", Missing>> }

\* <<sessions_total, sessions_with_mechanism>>
Coverages == { <<2, 1>>, <<2, 2>>, <<1, 2>>, <<-1, 0>>, <<0, -1>>, <<MissingNum, 1>> }

PeriodSinces == {MissingNum, 5, BlankDate}

IncrementalPayload(schema_version, names, reports, coverage, since) ==
    [IncrPayload("two_reports") EXCEPT
        !.schema_version = schema_version,
        !.period_id = names[1],
        !.week = names[2],
        !.reports = reports,
        !.coverage = [sessions_total |-> coverage[1],
                      sessions_with_mechanism |-> coverage[2]],
        !.period.since = since]

ValidateIncrementalInit ==
    /\ sidecars = Idle
    /\ incrementals = Idle
    /\ jobs = Idle
    /\ now = 0
    /\ last = Idle
    /\ answer = Idle
    /\ pipe = Idle
    /\ dig = Idle
    /\ wr = Idle
    /\ call = Idle
    /\ api = Idle
    /\ incr = Idle
    /\ sync = Idle
    /\ \E schema_version \in SchemaVersions, names \in PeriodNames,
          coverage \in Coverages, since \in PeriodSinces,
          reports \in {<<>>} \cup {ReportsOf(defect, second) :
                                     defect \in ReportDefects, second \in SecondReports} :
        val = [pc |-> "call",
               payload |-> IncrementalPayload(schema_version, names, reports,
                                              coverage, since),
               errors |-> <<>>]

\* errors = validate_incremental_mechanism(payload)
ValidateIncremental ==
    /\ val.pc = "call"
    /\ UNCHANGED <<call, api, incr, sync, sidecars, incrementals, jobs, now, last,
                   answer, pipe, dig, wr>>
    /\ val' = [val EXCEPT !.pc = "done",
                          !.errors = ValidateIncrementalMechanism(val.payload)]

SpecValidateIncremental == ValidateIncrementalInit /\ [][ValidateIncremental]_vars

----------------------------------------------------------------------------
(* build_session_digest: the timeline of one conversation.  A turn is its  *)
(* turn_id and its position in the conversation; turn_id 0 stands for a    *)
(* turn whose turn_id is absent or 0.                                      *)

\* max_turns=12
MAX_TIMELINE_TURNS == 12

MaxTurns == 14

\* how the turns of a conversation are numbered: from 1, from 0, not at
\* all, or from 1 again after every `period` turns
IdSchemes ==
    [kind : {"from1", "from0", "absent"}, period : {0}]
        \cup [kind : {"cycle"}, period : 1..8]

TurnsOf(scheme, n) ==
    [i \in 1..n |->
        [turn_id |-> CASE scheme.kind = "from1" -> i
                       [] scheme.kind = "from0" -> i - 1
                       [] scheme.kind = "cycle" -> ((i - 1) % scheme.period) + 1
                       [] OTHER -> 0,
         pos |-> i]]

\* the loop of lines 277-285 over selected[1..upto]
RECURSIVE DedupeTurns(_, _)
DedupeTurns(selected, upto) ==
    IF upto = 0 THEN <<>>
    ELSE LET turn == selected[upto]
             seen_turn_ids == {selected[j].turn_id : j \in 1..(upto - 1)}
         IN IF turn.turn_id > 0 /\ turn.turn_id \in seen_turn_ids
            THEN DedupeTurns(selected, upto - 1)
            ELSE Append(DedupeTurns(selected, upto - 1), turn)

\* a selection that takes the first max_turns turns
SelectFirstTurns(turns, max_turns) == SubSeq(turns, 1, Min(max_turns, Len(turns)))

\* _select_timeline_turns
SelectTimelineTurns(turns, max_turns) ==
    IF Len(turns) <= max_turns THEN turns
    ELSE LET head == max_turns \div 2
             tail == max_turns - head
             selected == SubSeq(turns, 1, head)
                            \o SubSeq(turns, Len(turns) - tail + 1, Len(turns))
         IN DedupeTurns(selected, Len(selected))

\* the timeline of build_session_digest: int(turn.get("turn_id", idx) or idx)
Timeline(turns) ==
    LET selected == SelectTimelineTurns(turns, MAX_TIMELINE_TURNS)
    IN [idx \in 1..Len(selected) |->
           [turn_id |-> IF selected[idx].turn_id # 0 THEN selected[idx].turn_id ELSE idx,
            pos |-> selected[idx].pos]]

DigestInit ==
    /\ call = Idle
    /\ api = Idle
    /\ incr = Idle
    /\ sync = Idle
    /\ sidecars = Idle
    /\ incrementals = Idle
    /\ jobs = Idle
    /\ now = 0
    /\ last = Idle
    /\ answer = Idle
    /\ pipe = Idle
    /\ val = Idle
    /\ wr = Idle
    /\ \E scheme \in IdSchemes, n \in 0..MaxTurns :
        dig = [pc |-> "call", turns |-> TurnsOf(scheme, n), timeline |-> <<>>]

\* digest = build_session_digest(conv)
BuildSessionDigest ==
    /\ dig.pc = "call"
    /\ UNCHANGED <<call, api, incr, sync, sidecars, incrementals, jobs, now, last,
                   answer, pipe, val, wr>>
    /\ dig' = [dig EXCEPT !.pc = "done", !.timeline = Timeline(dig.turns)]

SpecDigest == DigestInit /\ [][BuildSessionDigest]_vars

----------------------------------------------------------------------------
(* One sidecar write as the file system sees it.  Path.write_text opens    *)
(* the target for writing, which truncates it, writes the text through a   *)
(* buffer that reaches the file block by block, and closes the file.  A    *)
(* file is the sequence of its blocks; NoBlocks is a path without a file.  *)

MaxBlocks == 3

NoBlocks == << <<"no-file", 0>> >>

\* rendered texts of 1 to MaxBlocks blocks
Rendered(tag, n) == [i \in 1..n |-> <<tag, i>>]

SidecarKinds == {"session", "incremental"}

\* the file at the target path before the write: none, an older text, or
\* the text about to be written
ExistingFiles(rendered) ==
    {NoBlocks, rendered} \cup {Rendered("old", n) : n \in 1..MaxBlocks}

WriteInit ==
    /\ call = Idle
    /\ api = Idle
    /\ incr = Idle
    /\ sync = Idle
    /\ sidecars = Idle
    /\ incrementals = Idle
    /\ jobs = Idle
    /\ now = 0
    /\ last = Idle
    /\ answer = Idle
    /\ pipe = Idle
    /\ val = Idle
    /\ dig = Idle
    /\ \E kind \in SidecarKinds, n \in 1..MaxBlocks :
        \E existing \in ExistingFiles(Rendered("new", n)) :
            wr = [pc |-> "start", kind |-> kind, rendered |-> Rendered("new", n),
                  existing |-> existing, target |-> existing,
                  seen |-> existing]

\* lines 966-971 skip the write of a session sidecar whose file holds the
\* rendered text; _write_json has no such test
SkipsWrite(kind, existing, rendered) == kind = "session" /\ existing = rendered

\* everything but the write in progress
notWr == <<call, api, incr, sync, sidecars, incrementals, jobs, now, last, answer,
           pipe, val, dig>>

\* open(path, "w"): the file is created or truncated
WriteOpen ==
    /\ wr.pc = "start"
    /\ UNCHANGED notWr
    /\ IF SkipsWrite(wr.kind, wr.existing, wr.rendered)
       THEN wr' = [wr EXCEPT !.pc = "done"]
       ELSE wr' = [wr EXCEPT !.pc = "writing", !.target = <<>>]

\* the buffer hands the next block of the text to the file
WriteBlock ==
    /\ wr.pc = "writing"
    /\ Len(wr.target) < Len(wr.rendered)
    /\ UNCHANGED notWr
    /\ wr' = [wr EXCEPT !.target = Append(@, wr.rendered[Len(wr.target) + 1])]

\* the file is closed with the whole text in it
WriteClose ==
    /\ wr.pc = "writing"
    /\ wr.target = wr.rendered
    /\ UNCHANGED notWr
    /\ wr' = [wr EXCEPT !.pc = "done"]

\* the process dies between two steps of the write
WriteCrash ==
    /\ wr.pc \in {"start", "writing"}
    /\ UNCHANGED notWr
    /\ wr' = [wr EXCEPT !.pc = "crashed"]

\* another process reads the target path
ReadTarget ==
    /\ wr.pc # "idle"
    /\ wr.seen # wr.target
    /\ UNCHANGED notWr
    /\ wr' = [wr EXCEPT !.seen = wr.target]

WriteNext == WriteOpen \/ WriteBlock \/ WriteClose \/ WriteCrash \/ ReadTarget

SpecWrite == WriteInit /\ [][WriteNext]_vars

----------------------------------------------------------------------------
(* Claims about the retry wrappers.                                        *)

\* the four retryable markers named by the retry policy
HasRetryMarker(exc) ==
    LET text == Lower(exc) IN
        \/ Contains(text, <<"timed", "out">>)
        \/ Contains(text, <<"failed", "rc=1">>)
        \/ Contains(text, <<"no", "json", "object", "found">>)
        \/ Contains(text, <<"rate", "limit">>)

\* the markers every retry wrapper of the code treats as retryable
HasCommonRetryMarker(exc) ==
    LET text == Lower(exc) IN
        \/ Contains(text, <<"timed", "out">>)
        \/ Contains(text, <<"failed", "rc=1">>)
        \/ Contains(text, <<"no", "json", "object", "found">>)

\* C4: for each of the four providers, in both passes, a call whose
\* attempts fail with a retryable error is re-attempted until it succeeds
\* or 3 attempts were made, never more than 3; two timed-out failures and
\* a success give one result and no error entry; three failures give
\* exactly one error entry.
C4_RetriedUpToThreeAttempts ==
    /\ call.tries <= MaxRetries + 1
    /\ (call.st = "raised"
          /\ \A i \in 1..Len(call.errs) : HasCommonRetryMarker(call.errs[i]))
          => call.tries = MaxRetries + 1
    /\ (call.st = "returned" /\ call.pass = "session"
          /\ Len(call.errs) = 2
          /\ \A i \in 1..2 : Contains(Lower(call.errs[i]), <<"timed", "out">>))
          => (call.results = 1 /\ call.errors = <<>>)
    /\ (call.st = "raised" /\ call.pass = "session" /\ call.tries = MaxRetries + 1)
          => (Len(call.errors) = 1 /\ call.results = 0)

\* C5: in the wrappers of both local-CLI providers a failed attempt is
\* followed by another attempt iff fewer than 2 retries were used and the
\* lower-cased error text holds one of the four markers.
C5_RetryIffMarker ==
    call.provider \in CliProviders =>
        \A i \in 1..Len(call.errs) :
            (~(i = Len(call.errs) /\ call.st = "raised"))
                <=> (i - 1 < MaxRetries /\ HasRetryMarker(call.errs[i]))

----------------------------------------------------------------------------
(* Claims about run_api's worker pool.                                     *)

\* the records the workers == 1 loop appends for recorded outcomes, in bundle order
RECURSIVE SequentialResults(_, _)
SequentialResults(a, upto) ==
    IF upto = 0 THEN <<>>
    ELSE LET before == SequentialResults(a, upto - 1) IN
         IF upto \in SessionItems(a.sessions) /\ a.outcome[upto] \notin {"none", "raise"}
         THEN Append(before,
                     NormalizeSessionOutput(RawOutput(a.outcome[upto], a.sessions[upto]),
                         a.sessions[upto], ApiRunId, a.provider,
                         DefaultModel(a.provider), "api", 1))
         ELSE before

\* C8: for every max_workers and every completion order, the sessions array
\* written to api_<provider>_results.json lists the successful sessions in
\* ascending bundle index, and is the array the sequential loop
\* (max_workers = 1) writes for the same per-session outcomes.
C8_ResultsInInputOrder ==
    (api.pc = "done" /\ api.results_file # Absent) =>
        LET written == api.results_file.sessions IN
            /\ \A k \in 1..(Len(written) - 1) :
                  written[k].created_at < written[k + 1].created_at
            /\ written = SequentialResults(api, NumDigests)

\* a finished pool run in which a later digest completed before an earlier one
C8_Witness ==
    /\ api.pc = "done"
    /\ api.max_workers > 1
    /\ Len(api.results) >= 2
    /\ api.results[1][1] > api.results[2][1]
    /\ Len(api.results_file.sessions) >= 2

----------------------------------------------------------------------------
(* Claims about run_incremental_api's chunking.                            *)

ChunkFilesBefore(k, total) == {<<"incremental_chunk", j, total>> : j \in 1..(k - 1)}

\* C9: a run of run_incremental_api that reaches inference and in which no
\* call fails makes exactly one provider call when n <= 24 and, when n > 24,
\* ceil(n/24) chunk calls followed by exactly one merge call.  In every run
\* the chunk calls come one after another in chunk order, each over its own
\* slice of 24 sessions, each started only after the earlier chunks' results
\* are persisted; the merge call comes after every chunk call and its input
\* has sessions = [] and chunk_reports in chunk order.
C9_ChunkThenMerge ==
    LET n == Len(incr.input.sessions)
        calls == incr.calls
        total == CHOOSE t \in 0..n : t * 24 >= n /\ (t - 1) * 24 < n
    IN incr.pc # "idle" =>
        /\ (incr.pc = "done" /\ incr.rc = 0 /\ ~incr.dry_run) =>
              IF n <= 24
              THEN Len(calls) = 1 /\ calls[1].kind = "single"
              ELSE /\ Len(calls) = total + 1
                   /\ calls[total + 1].kind = "merge"
                   /\ (n = 25 => total = 2)
        /\ \A k \in 1..Len(calls) :
              /\ calls[k].kind = "single" => (n <= 24 /\ Len(calls) = 1)
              /\ calls[k].kind = "chunk" =>
                    /\ n > 24 /\ k <= total
                    /\ calls[k].sessions # <<>>
                    /\ calls[k].sessions[1] = 24 * (k - 1) + 1
                    /\ {f \in calls[k].files : f[1] = "incremental_chunk"}
                          = ChunkFilesBefore(k, total)
                    /\ \A j \in 1..(k - 1) : calls[j].kind = "chunk"
              /\ calls[k].kind = "merge" =>
                    /\ n > 24 /\ k = total + 1 /\ k = Len(calls)
                    /\ \A j \in 1..total : calls[j].kind = "chunk"
                    /\ calls[k].sessions = <<>>
                    /\ Len(calls[k].chunk_reports) = total
                    /\ \A j \in 1..total :
                          /\ calls[k].chunk_reports[j].chunk_id = <<j, total>>
                          /\ calls[k].chunk_reports[j].reports[1].first_session
                                = 24 * (j - 1) + 1
                    /\ {f \in calls[k].files : f[1] = "incremental_chunk"}
                          = ChunkFilesBefore(total + 1, total)

\* a finished run over 25 sessions: two chunk calls and the merge call
C9_Witness ==
    /\ incr.pc = "done"
    /\ incr.rc = 0
    /\ Len(incr.input.sessions) = 25
    /\ Len(incr.calls) = 3
    /\ incr.calls[3].kind = "merge"

----------------------------------------------------------------------------
(* Claims about report synchronisation.                                    *)

LivePagesWithKey(key) ==
    {id \in 1..Len(sync.pages) : sync.pages[id].key = key /\ ~sync.pages[id].archived}

PayloadReportKeys ==
    {ReportKey(r) : r \in Range(BuildReportsFromIncremental(sync.payload))}

TwoSuccessfulSyncs ==
    /\ sync.pc = "ready"
    /\ sync.rcs = <<0, 0>>
    /\ sync.drys = <<FALSE, FALSE>>

\* C3: from any external-DB state, after two consecutive successful
\* non-dry-run syncs of the same valid payload every (dimension, period) key
\* of the payload's reports has exactly one non-archived page, and the second
\* run issued no create call: it only updated the page the first run created
\* or kept.
C3_OnePagePerKey ==
    (sync.pc # "idle" /\ TwoSuccessfulSyncs) =>
        /\ \A key \in PayloadReportKeys : Cardinality(LivePagesWithKey(key)) = 1
        /\ \A i \in 1..Len(sync.log) :
              sync.log[i].run = 2 =>
                /\ sync.log[i].op \in {"update", "clear", "append"}
                /\ LivePagesWithKey(sync.pages[sync.log[i].page].key)
                      = {sync.log[i].page}
                /\ \E j \in 1..Len(sync.log) :
                          /\ sync.log[j].run = 1 /\ sync.log[j].ok
                          /\ sync.log[j].op \in {"create", "update"}
                          /\ sync.log[j].page = sync.log[i].page

\* two successful syncs, the first of which archived a duplicate and created a page
C3_Witness ==
    /\ sync.pc # "idle"
    /\ TwoSuccessfulSyncs
    /\ \E i, j \in 1..Len(sync.log) :
          /\ sync.log[i].run = 1 /\ sync.log[i].op = "archive"
          /\ sync.log[j].run = 1 /\ sync.log[j].op = "create"
    /\ \E i \in 1..Len(sync.log) : sync.log[i].run = 2 /\ sync.log[i].op = "update"

----------------------------------------------------------------------------
(* Claims about the diagnose commands.                                     *)

\* the session sidecars that exist
WrittenSidecars == {sid \in DOMAIN sidecars : sidecars[sid] # NoFile}

\* C1: every session sidecar holds a record validate_session_mechanism
\* accepts, every incremental sidecar holds a payload
\* validate_incremental_mechanism accepts, and a file written by the last
\* command holds exactly an object that command validated
C1_WritesAreValidated ==
    /\ \A sid \in WrittenSidecars : ValidateSessionMechanism(sidecars[sid]) = <<>>
    /\ \A p \in DOMAIN incrementals :
          ValidateIncrementalMechanism(incrementals[p]) = <<>>
    /\ last.cmd = "backfill" =>
          \A sid \in WrittenSidecars :
              sidecars[sid].generated_by.generated_at = last.n
                  => sidecars[sid] \in last.validated
    /\ last.cmd = "incremental" =>
          \A p \in DOMAIN incrementals :
              incrementals[p].generated_at = last.n
                  => incrementals[p] \in last.validated

\* an incremental run has just written its payload next to a session sidecar
C1_Witness ==
    /\ last.cmd = "incremental"
    /\ WrittenSidecars # {}
    /\ \E p \in DOMAIN incrementals :
          incrementals[p].generated_at = last.n /\ incrementals[p] \in last.validated

\* C2: a backfill run that follows a backfill run that exited 0, with the
\* same arguments and no provider failure in either, creates and modifies
\* no session sidecar and no file under skill_jobs
C2_SecondRunMutatesNothing ==
    [][(/\ last.cmd = "backfill"
        /\ last.rc = 0
        /\ last.failed = {}
        /\ last'.cmd = "backfill"
        /\ last'.n = last.n + 1
        /\ last'.args = last.args
        /\ last'.failed = {})
       => (sidecars' = sidecars /\ jobs' = jobs)]_vars

\* C6: a backfill run without --allow-partial in which the inference of a
\* session failed exits 1 and leaves every session sidecar as it was
C6_FailureWithoutPartialWritesNothing ==
    [][(/\ last'.cmd = "backfill"
        /\ last'.n = now + 1
        /\ ~last'.args.allow_partial
        /\ last'.failed # {})
       => (last'.rc = 1 /\ sidecars' = sidecars)]_vars

\* a run without --allow-partial over two sessions, one of which failed
C6_Witness ==
    /\ last.cmd = "backfill"
    /\ ~last.args.allow_partial
    /\ last.failed # {}
    /\ last.targets \ last.failed # {}
    /\ last.rc = 1
    /\ WrittenSidecars = {}

\* C7: after a session batch run with allow_partial, run_api returned 0
\* exactly if a session succeeded, each succeeded record that validates is in
\* its sidecar, the errors file lists the failed sessions once each, and the
\* errors file exists only if a session of this run failed
C7_PartialBatchOutcome ==
    (last.cmd = "backfill" /\ last.args.allow_partial /\ last.targets # {}) =>
        LET run_id == BackfillRunId(last.args, last.n)
            results == jobs[ApiFile(run_id, last.args.provider, "results")].sessions
            errors_file == ApiFile(run_id, last.args.provider, "errors")
        IN /\ last.api_rc = 0 <=> last.targets \ last.failed # {}
           /\ last.api_rc = 0 =>
                \A i \in 1..Len(results) :
                    LET record == ApplyDefaults(results[i], run_id, last.n)
                    IN ValidateSessionMechanism(record) = <<>>
                           => sidecars[record.session_id] = record
           /\ last.failed # {} =>
                /\ errors_file \in DOMAIN jobs
                /\ Len(jobs[errors_file].failed_sessions) = Cardinality(last.failed)
                /\ {jobs[errors_file].failed_sessions[i].session_id :
                       i \in 1..Len(jobs[errors_file].failed_sessions)} = last.failed
           /\ errors_file \in DOMAIN jobs => last.failed # {}

\* C10: an incremental run whose filled and sorted payload has a validation
\* error exits 1, leaves the incremental sidecars as they were and does not
\* call the report synchronizer
C10_InvalidPayloadRejected ==
    [][(/\ last'.cmd = "incremental"
        /\ last'.n = now + 1
        /\ last'.payload # NoFile
        /\ ValidateIncrementalMechanism(last'.payload) # <<>>)
       => (last'.rc = 1 /\ incrementals' = incrementals /\ ~last'.synced)]_vars

\* a result file with dimension/layer mismatch was rejected under
\* --sync-report while an earlier incremental sidecar was on disk
C10_Witness ==
    /\ last.cmd = "incremental"
    /\ last.args.result_file = "layer_mismatch"
    /\ last.args.sync_report
    /\ last.payload # NoFile
    /\ ValidateIncrementalMechanism(last.payload) # <<>>
    /\ last.rc = 1
    /\ DOMAIN incrementals # {}

\* C11: an incremental run with --window 30d and no --period-id that wrote
\* its sidecar wrote it to rolling_30d.json
C11_WindowWritesRollingSidecar ==
    (/\ last.cmd = "incremental"
     /\ last.args.window = "30d"
     /\ last.args.period_id = Missing
     /\ last.args.result_file = "two_reports"
     /\ last.validated # {})
        => /\ "rolling_30d" \in DOMAIN incrementals
           /\ incrementals["rolling_30d"] \in last.validated

----------------------------------------------------------------------------
(* Claims about the report index and the duplicates.                       *)

\* the index and the duplicates are those just built from the query: no
\* call of this run has reached the database yet
IndexJustBuilt ==
    /\ sync.pc \in {"archive", "write"}
    /\ \A i \in 1..Len(sync.log) : sync.log[i].run # sync.run

\* the pages the database query returns for a key
GroupOf(key) ==
    {id \in 1..Len(sync.pages) : ~sync.pages[id].archived /\ sync.pages[id].key = key}

FullKeys == {key \in PageKeys : key[1] # "" /\ key[2] # ""}

\* how often a page is listed in the duplicates
TimesListed(id) ==
    Cardinality({i \in 1..Len(sync.duplicates) : sync.duplicates[i] = id})

\* C12: for every group of pages sharing a full key one page is the keeper:
\* the most recently edited CJK page if the group has a CJK page, else the
\* most recently edited page; every other page of the group is listed once
\* in the duplicates and the keeper is not listed
C12_KeeperAndDuplicates ==
    IndexJustBuilt =>
        /\ DOMAIN sync.index = {key \in FullKeys : GroupOf(key) # {}}
        /\ \A key \in DOMAIN sync.index :
            LET keeper == sync.index[key]
                zh == {id \in GroupOf(key) : sync.pages[id].is_zh}
                pool == IF zh # {} THEN zh ELSE GroupOf(key)
            IN /\ keeper \in pool
               /\ \A id \in pool : sync.pages[id].sort_key <= sync.pages[keeper].sort_key
               /\ TimesListed(keeper) = 0
               /\ \A id \in GroupOf(key) \ {keeper} : TimesListed(id) = 1

\* a group whose older page is CJK and whose newer page is not: the CJK page
\* is kept and the newer page is the duplicate
C12_Witness ==
    /\ IndexJustBuilt
    /\ \E key \in DOMAIN sync.index :
        \E zh_id, en_id \in GroupOf(key) :
            /\ sync.pages[zh_id].is_zh
            /\ ~sync.pages[en_id].is_zh
            /\ sync.pages[zh_id].sort_key < sync.pages[en_id].sort_key
            /\ sync.index[key] = zh_id
            /\ TimesListed(en_id) = 1

----------------------------------------------------------------------------
(* Claims about the calls one sync run makes.                              *)

WriteOps == {"create", "update", "clear", "append"}

\* the positions in the log of the calls of a run with an operation of ops
CallsOf(run, ops) ==
    {i \in 1..Len(sync.log) : sync.log[i].run = run /\ sync.log[i].op \in ops}

\* the runs that have returned
ReturnedRuns == 1..Len(sync.rcs)

\* C13: in a run that is not a dry run every archive call comes before every
\* create, update, clear or append call, the write loop starts with no
\* duplicate left to archive, and a run with a failed archive call makes no
\* write call and returns non-zero
C13_ArchiveBeforeWrite ==
    /\ \A run \in 1..sync.run :
          /\ \A i \in CallsOf(run, {"archive"}), j \in CallsOf(run, WriteOps) : i < j
          /\ (\E i \in CallsOf(run, {"archive"}) : ~sync.log[i].ok) =>
                /\ CallsOf(run, WriteOps) = {}
                /\ run \in ReturnedRuns => sync.rcs[run] # 0
    /\ sync.pc = "write" =>
          /\ sync.duplicates = <<>>
          /\ \A key \in FullKeys : Cardinality(GroupOf(key)) <= 1

\* a run whose archive call failed has returned
C13_Witness ==
    \E run \in ReturnedRuns :
        /\ \E i \in CallsOf(run, {"archive"}) : ~sync.log[i].ok
        /\ sync.rcs[run] = 1
        /\ CallsOf(run, WriteOps) = {}

\* the write attempts of a run, in the order they were made: a create call,
\* or the update call that opens an upsert of an existing page
RECURSIVE AttemptsFrom(_, _)
AttemptsFrom(run, i) ==
    IF i > Len(sync.log) THEN <<>>
    ELSE IF sync.log[i].run = run /\ sync.log[i].op \in {"create", "update"}
    THEN <<sync.log[i]>> \o AttemptsFrom(run, i + 1)
    ELSE AttemptsFrom(run, i + 1)

Attempts(run) == AttemptsFrom(run, 1)

PayloadReports == BuildReportsFromIncremental(sync.payload)

\* C14: the write loop attempts every report of the payload once and in
\* order whatever the outcome of the earlier attempts, and the run returns 0
\* exactly if every attempt succeeded
C14_WriteLoopCoversEveryReport ==
    /\ sync.pc = "write" =>
          /\ Len(Attempts(sync.run)) + Len(sync.reports) = Len(PayloadReports)
          /\ \A k \in 1..Len(Attempts(sync.run)) :
                Attempts(sync.run)[k].key = ReportKey(PayloadReports[k])
    /\ \A run \in ReturnedRuns :
          Attempts(run) # <<>> =>
              /\ Len(Attempts(run)) = Len(PayloadReports)
              /\ \A k \in 1..Len(Attempts(run)) :
                    Attempts(run)[k].key = ReportKey(PayloadReports[k])
              /\ sync.rcs[run] = 0 <=>
                    \A k \in 1..Len(Attempts(run)) : Attempts(run)[k].ok

\* a run of two reports whose first write failed and whose second succeeded
C14_Witness ==
    \E run \in ReturnedRuns :
        /\ Len(Attempts(run)) = 2
        /\ ~Attempts(run)[1].ok
        /\ Attempts(run)[2].ok
        /\ sync.rcs[run] = 1

\* C15: a dry run on a payload that passes both gates makes no create,
\* update, clear, append or archive call, prints for each report one line
\* saying it would create or would update the report, and returns 0
C15_DryRunSaysWouldCreateOrUpdate ==
    \A run \in ReturnedRuns :
        (/\ sync.drys[run]
         /\ ValidateIncrementalMechanism(sync.payload) = <<>>
         /\ EvaluatePayloadQuality(sync.payload) = <<>>)
            => /\ CallsOf(run, WriteOps \cup {"archive"}) = {}
               /\ sync.rcs[run] = 0
               /\ Cardinality(CallsOf(run, {"would_create", "would_update"}))
                     = Len(PayloadReports)

----------------------------------------------------------------------------
(* Claims about the pipeline chain.                                        *)

\* the position of a stage in the chain
StageIndex(stage) == CHOOSE i \in 1..Len(StageOrder) : StageOrder[i] = stage

\* C16: the stages start in the order of the chain, a stage starts only
\* after every stage started before it has returned 0, and when a stage
\* returns non-zero no later stage starts and the pipeline returns that code
C16_StagesSerialStopOnFailure ==
    pipe.pc # "idle" =>
        /\ \A i, j \in 1..Len(pipe.started) :
              i < j => StageIndex(pipe.started[i]) < StageIndex(pipe.started[j])
        /\ Len(pipe.started) - Len(pipe.rcs) \in {0, 1}
        /\ \A i \in 1..Len(pipe.started) - 1 : pipe.rcs[i] = 0
        /\ \A i \in 1..Len(pipe.rcs) :
              pipe.rcs[i] # 0 => /\ i = Len(pipe.started)
                                 /\ pipe.pc = "done"
                                 /\ pipe.rc = pipe.rcs[i]
        /\ (pipe.pc = "done" /\ \A i \in 1..Len(pipe.rcs) : pipe.rcs[i] = 0) =>
              /\ pipe.rc = 0
              /\ \A k \in 1..Len(StageOrder) :
                    ~Skipped(pipe.args, StageOrder[k])
                        => \E i \in 1..Len(pipe.started) : pipe.started[i] = StageOrder[k]

\* the backfill stage returned 2 after ingest and enrich: the pipeline
\* returned 2 and started nothing else
C16_Witness ==
    /\ pipe.pc = "done"
    /\ pipe.started = <<"ingest_claude_code", "ingest_codex", "enrich_heuristic",
                        "diagnose_backfill">>
    /\ pipe.rcs = <<0, 0, 0, 2>>
    /\ pipe.rc = 2

\* C17: the period label passed to the stats stage is the period id under
\* which the incremental stage of the same run persists its sidecar
C17_StatsLabelIsIncrementalPeriod ==
    (pipe.pc # "idle" /\ pipe.stats_period # Missing)
        => pipe.stats_period = pipe.incremental_period

----------------------------------------------------------------------------
(* Claims about the provider checks that precede inference.                *)

HttpProviders == Providers \ CliProviders

\* run_api has made no inference call
NoSessionInferred ==
    /\ \A i \in DOMAIN api.outcome : api.outcome[i] = "none"
    /\ api.results = <<>>
    /\ api.errors_payload = <<>>

\* C18: run_api and run_incremental_api return 2 without an inference call
\* when the provider is openai or anthropic and its key is unset or blank,
\* and when the provider is not one of the four supported providers
C18_MissingKeyOrProviderReturns2 ==
    /\ (api.pc = "done"
           /\ \/ api.provider \in HttpProviders /\ ~api.key_set
              \/ api.provider \notin Providers)
          => (api.rc = 2 /\ NoSessionInferred)
    /\ (incr.pc = "done"
           /\ \/ incr.provider \in HttpProviders /\ ~incr.key_set
              \/ incr.provider \notin Providers)
          => (incr.rc = 2 /\ incr.calls = <<>>)

\* C18 amended: the same for a missing key in a run that is not a dry run,
\* and for an unsupported provider in every run
C18_MissingKeyReturns2UnlessDryRun ==
    /\ (api.pc = "done"
           /\ \/ api.provider \in HttpProviders /\ ~api.key_set /\ ~api.dry_run
              \/ api.provider \notin Providers)
          => (api.rc = 2 /\ NoSessionInferred)
    /\ (incr.pc = "done"
           /\ \/ incr.provider \in HttpProviders /\ ~incr.key_set /\ ~incr.dry_run
              \/ incr.provider \notin Providers)
          => (incr.rc = 2 /\ incr.calls = <<>>)

\* run_api has returned 2 for openai without a key in a run that is not a
\* dry run
C18_Witness ==
    /\ api.pc = "done"
    /\ api.provider = "openai"
    /\ ~api.key_set
    /\ ~api.dry_run
    /\ api.rc = 2
    /\ NoSessionInferred

----------------------------------------------------------------------------
(* Claims about validate_session_mechanism.                                *)

\* the text contains a placeholder token, case-insensitively
MentionsPlaceholder(text) ==
    \E token \in PLACEHOLDER_TOKENS : Contains(Lower(AsNonEmptyText(text)), token)

\* a required string field of the payload contains a placeholder token
HasPlaceholderField(payload) ==
    \/ MentionsPlaceholder(payload.summary)
    \/ \E i \in 1..Len(payload.why) :
          \/ MentionsPlaceholder(payload.why[i].hypothesis)
          \/ \E j \in 1..Len(payload.why[i].evidence) :
                MentionsPlaceholder(payload.why[i].evidence[j].snippet)
    \/ \E i \in 1..Len(payload.how_to_improve) :
          \/ MentionsPlaceholder(payload.how_to_improve[i].trigger)
          \/ MentionsPlaceholder(payload.how_to_improve[i].action)
          \/ MentionsPlaceholder(payload.how_to_improve[i].expected_gain)
          \/ MentionsPlaceholder(payload.how_to_improve[i].validation_window)

\* C19: validate_session_mechanism returns an error for every payload with
\* a placeholder token in a required string field
C19_PlaceholderRejected ==
    (val.pc = "done" /\ HasPlaceholderField(val.payload)) => val.errors # <<>>

\* the claim's test for blocked provenance, on trimmed lower-cased values
ProvenanceBlocked(generated_by) ==
    \/ StripLower(generated_by.engine) \in {"manual", "mock", "template"}
    \/ StripLower(generated_by.provider)
          \in {"skill-manual", "manual", "mock", "api-mock", "template"}
    \/ BlockedTokensIn(StripLower(generated_by.run_id)) # {}

\* C20: validate_session_mechanism reports 'generated_by is blocked' exactly
\* for the payloads whose engine or provider is a blocked one or whose run id
\* contains a blocked token, compared case-insensitively after trimming
C20_BlockedProvenanceRejected ==
    val.pc = "done" =>
        (ProvenanceBlocked(val.payload.generated_by)
            <=> \E i \in 1..Len(val.errors) : val.errors[i] = "generated_by is blocked")

\* a payload that is blocked only through the upper-case spelling of its
\* run id, and has no other error
C20_Witness ==
    /\ val.pc = "done"
    /\ val.payload.generated_by.engine = "api"
    /\ val.payload.generated_by.provider = "claude_cli"
    /\ val.payload.generated_by.run_id = "RUN-Mock-Backfill-7"
    /\ val.errors = <<"generated_by is blocked">>

----------------------------------------------------------------------------
(* Claims about validate_incremental_mechanism.                            *)

\* the period a report is filed under: its own, else the payload's
ReportPeriod(payload, i) ==
    IF IsNonEmptyWord(payload.reports[i].period) THEN payload.reports[i].period
    ELSE IF IsNonEmptyWord(payload.period_id) THEN payload.period_id
    ELSE IF IsNonEmptyWord(payload.week) THEN payload.week
    ELSE ""

RegistryDimensions ==
    {DIMENSION_LAYER_PAIRS[i][1] : i \in 1..Len(DIMENSION_LAYER_PAIRS)}

RegistryLayer(dimension) ==
    DIMENSION_LAYER_PAIRS[CHOOSE i \in 1..Len(DIMENSION_LAYER_PAIRS) :
                              DIMENSION_LAYER_PAIRS[i][1] = dimension][2]

\* the rules of the claim for one report, on the values as written
ReportMeetsRules(item) ==
    /\ item.dimension \in RegistryDimensions
    /\ item.layer = RegistryLayer(item.dimension)
    /\ AsNonEmptyText(item.title) # <<>>
    /\ AsNonEmptyText(item.key_insights) # <<>>
    /\ \/ \E k \in 1..Len(item.detail_lines) : AsNonEmptyText(item.detail_lines[k]) # <<>>
       \/ ("detail_text" \in DOMAIN item /\ AsNonEmptyText(item.detail_text) # <<>>)

\* the rules of the claim for a payload
MeetsIncrementalRules(payload) ==
    /\ payload.schema_version = "incremental-mechanism.v1"
    /\ IsNonEmptyWord(payload.period_id) \/ IsNonEmptyWord(payload.week)
    /\ payload.reports # <<>>
    /\ \A i \in 1..Len(payload.reports) : ReportMeetsRules(payload.reports[i])
    /\ \A i, j \in 1..Len(payload.reports) :
          i < j => \/ payload.reports[i].dimension # payload.reports[j].dimension
                   \/ ReportPeriod(payload, i) # ReportPeriod(payload, j)
    /\ payload.coverage.sessions_total >= 0
    /\ payload.coverage.sessions_with_mechanism >= 0
    /\ payload.coverage.sessions_with_mechanism <= payload.coverage.sessions_total

ReportMeetsRulesTrimmed(item) ==
    /\ StripWord(item.dimension) \in RegistryDimensions
    /\ StripWord(item.layer) = RegistryLayer(StripWord(item.dimension))
    /\ AsNonEmptyText(item.title) # <<>>
    /\ AsNonEmptyText(item.key_insights) # <<>>
    /\ \/ \E k \in 1..Len(item.detail_lines) : AsNonEmptyText(item.detail_lines[k]) # <<>>
       \/ ("detail_text" \in DOMAIN item /\ AsNonEmptyText(item.detail_text) # <<>>)

\* the further checks of the validator on one report: period and date are
\* not blank when present, conversations_analyzed is not negative, at most
\* 80 non-blank detail lines, and not 20 or more lines of which 70% or more
\* quote a session or a turn
ReportPassesFurtherChecks(item) ==
    LET lines == SelectSeq(item.detail_lines, LAMBDA l : AsNonEmptyText(l) # <<>>)
        quoting == SelectSeq(lines, LAMBDA l :
                       \E i \in 1..Len(l) : l[i] \in {"#T1", "#t1", "session_id", "session-id"})
    IN /\ item.period # ""
       /\ item.date # ""
       /\ "conversations_analyzed" \in DOMAIN item => item.conversations_analyzed >= 0
       /\ Len(lines) <= 80
       /\ ~(Len(lines) >= 20 /\ 10 * Len(quoting) >= 7 * Len(lines))

----------------------------------------------------------------------------
(* Claims about the apply step of a backfill run.                          *)

\* the records the apply step of the run that ends in this step validates
AppliedRecords ==
    LET run_id == BackfillRunId(last'.args, last'.n)
        items == jobs'[ApiFile(run_id, last'.args.provider, "results")].sessions
    IN [i \in 1..Len(items) |-> ApplyDefaults(items[i], run_id, last'.n)]

\* the step is a backfill run that reached its apply step
ApplyStepTaken ==
    /\ last'.cmd = "backfill"
    /\ last'.n = now + 1
    /\ last'.targets # {}
    /\ ~last'.args.dry_run
    /\ last'.api_rc = 0

\* C22: without allow_partial an apply step with an invalid record returns
\* 1 and leaves every session sidecar as it was; with allow_partial each
\* valid record is in its sidecar, no sidecar is written for a session that
\* has only invalid records, every invalid record is listed in
\* invalid_session_mechanisms.json, and the step returns 0 exactly if a
\* record is valid
C22_ApplyAllOrNothingUnlessPartial ==
    [][ApplyStepTaken =>
        LET records == Range(AppliedRecords)
            valid == {r \in records : ValidateSessionMechanism(r) = <<>>}
            invalid == records \ valid
            invalid_path == <<BackfillRunId(last'.args, last'.n),
                              "invalid_session_mechanisms.json">>
        IN IF ~last'.args.allow_partial
           THEN invalid # {} => (last'.rc = 1 /\ sidecars' = sidecars)
           ELSE /\ \A r \in valid : sidecars'[r.session_id] = r
                /\ \A sid \in DOMAIN sidecars' :
                      sidecars'[sid] # sidecars[sid]
                          => \E r \in valid : r.session_id = sid
                /\ invalid # {} =>
                      /\ invalid_path \in DOMAIN jobs'
                      /\ Range(jobs'[invalid_path].invalid_records)
                            = {r.session_id : r \in invalid}
                /\ last'.rc = 0 <=> valid # {}]_vars

\* a run with allow_partial wrote the sidecar of its valid record and
\* listed its invalid record
C22_Witness ==
    /\ last.cmd = "backfill"
    /\ last.args.allow_partial
    /\ last.rc = 0
    /\ last.targets = {"s1", "s2"}
    /\ sidecars["s1"] # NoFile
    /\ sidecars["s2"] = NoFile
    /\ <<BackfillRunId(last.args, last.n), "invalid_session_mechanisms.json">>
          \in DOMAIN jobs

----------------------------------------------------------------------------
(* Claims about the digest timeline.                                       *)

\* the positions the timeline is chosen from: every turn, or the first 6
\* and the last 6
TimelineCandidates(n) ==
    IF n <= 12 THEN [i \in 1..n |-> i]
    ELSE [i \in 1..12 |-> IF i <= 6 THEN i ELSE n - 12 + i]

\* the candidate repeats the turn_id (a positive integer) of an earlier one
RepeatsEarlierTurnId(turns, candidates, k) ==
    /\ turns[candidates[k]].turn_id > 0
    /\ \E j \in 1..(k - 1) : turns[candidates[j]].turn_id = turns[candidates[k]].turn_id

\* C23: the timeline has at most 12 items; for a conversation of at most 12
\* turns it is all turns in order; for a longer one it is the first 6 turns
\* followed by the last 6, a turn that repeats the turn_id of an earlier one
\* of these left out; and when the turn_ids count up from 1 the turn_ids of
\* the timeline are strictly increasing
C23_TimelineHeadAndTail ==
    dig.pc = "done" =>
        LET turns == dig.turns
            n == Len(turns)
            candidates == TimelineCandidates(n)
            kept == SelectSeq([k \in 1..Len(candidates) |-> k],
                        LAMBDA k : n <= 12 \/ ~RepeatsEarlierTurnId(turns, candidates, k))
        IN /\ Len(dig.timeline) <= 12
           /\ [i \in 1..Len(dig.timeline) |-> dig.timeline[i].pos]
                 = [i \in 1..Len(kept) |-> candidates[kept[i]]]
           /\ (\A i \in 1..n : turns[i].turn_id = i) =>
                 /\ \A i \in 1..Len(dig.timeline) :
                       dig.timeline[i].turn_id = dig.timeline[i].pos
                 /\ \A i \in 1..(Len(dig.timeline) - 1) :
                       dig.timeline[i].turn_id < dig.timeline[i + 1].turn_id

\* a conversation of 13 turns numbered from 1: the timeline is turns 1 to 6
\* and 8 to 13
C23_Witness ==
    /\ dig.pc = "done"
    /\ Len(dig.turns) = 13
    /\ \A i \in 1..13 : dig.turns[i].turn_id = i
    /\ [i \in 1..Len(dig.timeline) |-> dig.timeline[i].turn_id]
          = <<1, 2, 3, 4, 5, 6, 8, 9, 10, 11, 12, 13>>

----------------------------------------------------------------------------
(* Claims about the write of the incremental sidecar.                      *)

\* C24: an incremental run that is not a dry run and whose validated
\* payload equals what the period's sidecar file already holds does not
\* write that file
C24_EqualBytesNotRewritten ==
    [][(/\ last'.cmd = "incremental"
        /\ last'.n = now + 1
        /\ ~last'.args.dry_run
        /\ last'.validated # {})
       => \A path \in DOMAIN incrementals :
             incrementals[path] \in last'.validated => path \notin last'.written]_vars

----------------------------------------------------------------------------
(* Claims about the atomicity of a sidecar write.                          *)

\* C25: during the write of a session sidecar or of an incremental sidecar
\* the target path holds the complete old content or the complete new
\* content, and so does whatever a concurrent reader reads and whatever a
\* crash leaves behind
C25_TargetOldOrNew ==
    wr.pc # "idle" =>
        /\ wr.target \in {wr.existing, wr.rendered}
        /\ wr.seen \in {wr.existing, wr.rendered}

----------------------------------------------------------------------------
(* C26: Whatever order the result file lists the reports in, the reports   *)
(* sequence that incremental validates and persists, and the sequence of   *)
(* report writes each sync run issues to the external database, are in     *)
(* non-decreasing order of (registry rank, period, date, title), and a     *)
(* report of unknown dimension comes after every report of a registry      *)
(* dimension.                                                              *)

CanonicalKey(dimension, period, date, title) ==
    <<DimensionRank(StripWord(StrOr(dimension, ""))), StringOrd(StrOr(period, "")),
      StringOrd(StrOr(date, "")), TextOrd(title)>>

\* keys never go down, and no registry dimension follows an unknown one
InCanonicalOrder(keys, dimensions) ==
    \A i, j \in 1..Len(keys) :
        i < j => /\ ~KeyLess(keys[j], keys[i])
                 /\ (~IsSupportedDimension(dimensions[i])
                        => ~IsSupportedDimension(dimensions[j]))

ReportsInCanonicalOrder(reports) ==
    InCanonicalOrder([i \in 1..Len(reports) |->
                         CanonicalKey(reports[i].dimension, reports[i].period,
                                      reports[i].date, reports[i].title)],
                     [i \in 1..Len(reports) |-> StripWord(StrOr(reports[i].dimension, ""))])

\* the create and update calls of one sync run, in the order issued
ReportWrites(run) ==
    SelectSeq(sync.log, LAMBDA e : e.run = run /\ e.op \in {"create", "update"})

WritesInCanonicalOrder(run) ==
    LET writes == ReportWrites(run) IN
        InCanonicalOrder([i \in 1..Len(writes) |->
                             CanonicalKey(writes[i].key[1], writes[i].key[2],
                                          writes[i].date, writes[i].title)],
                         [i \in 1..Len(writes) |-> writes[i].key[1]])

----------------------------------------------------------------------------
(* C27: For any max_workers >= 1 and any interleaving of worker            *)
(* completions, when a run_api that is not a dry run has finished its      *)
(* session pass, each bundle digest with a non-empty session_id has        *)
(* exactly one record in the results list or exactly one entry in the      *)
(* failed-sessions list, never both and never neither, and was submitted   *)
(* for inference exactly once; a digest without session_id was never       *)
(* submitted.                                                              *)

\* the failed_sessions of the errors file; no file, no entries
FailedSessions == IF api.errors_file = Absent THEN <<>>
                  ELSE api.errors_file.failed_sessions

ResultRecordsOf(session_id) ==
    Cardinality({k \in 1..Len(api.results_file.sessions) :
                    api.results_file.sessions[k].session_id = session_id})

FailedEntriesOf(session_id) ==
    Cardinality({k \in 1..Len(FailedSessions) :
                    FailedSessions[k].session_id = session_id})

SessionPassFinished == api.pc = "done" /\ api.results_file # Absent

C27_EachDigestAccountedOnce ==
    SessionPassFinished =>
        /\ ~api.dry_run
        /\ \A i \in 1..Len(api.sessions) :
              LET session_id == api.sessions[i].session_id IN
                IF session_id = "" THEN api.submitted[i] = 0
                ELSE /\ ResultRecordsOf(session_id) + FailedEntriesOf(session_id) = 1
                     /\ api.submitted[i] = 1
        /\ Len(api.results_file.sessions) + Len(FailedSessions)
              = Cardinality(SessionItems(api.sessions))

\* a pool run in which a later digest completed before an earlier one, one
\* inference raised and one returned
C27_Witness ==
    /\ SessionPassFinished
    /\ api.max_workers > 1
    /\ Len(api.results) >= 2
    /\ api.results[1][1] > api.results[2][1]
    /\ FailedSessions # <<>>

----------------------------------------------------------------------------
(* C28: When chunking applies (more than 24 session items), the chunks are *)
(* contiguous slices of the session list, each of size between 1 and 24,   *)
(* whose concatenation in chunk order equals the original list, and each   *)
(* chunk input's coverage.sessions_with_mechanism equals that chunk's      *)
(* size; if a chunk call fails or returns an empty payload, no merge call  *)
(* is made, no final result file is written and the run returns 1.         *)

ChunkCalls == SelectSeq(incr.calls, LAMBDA c : c.kind = "chunk")

MergeCalls == SelectSeq(incr.calls, LAMBDA c : c.kind = "merge")

\* the sessions of the chunk calls made so far, one after the other
ChunkedSessions == Flatten([k \in 1..Len(ChunkCalls) |-> ChunkCalls[k].sessions])

IsContiguousSlice(slice, list) ==
    \E start \in 1..Len(list) :
        /\ start + Len(slice) - 1 <= Len(list)
        /\ slice = SubSeq(list, start, start + Len(slice) - 1)

\* a chunk call was made that added no chunk report
ChunkCallFailed == Len(ChunkCalls) > Len(incr.chunk_reports)

C28_ChunksPartitionSessions ==
    incr.pc # "idle" /\ Len(incr.input.sessions) > INCREMENTAL_CHUNK_SIZE =>
        /\ \A k \in 1..Len(ChunkCalls) :
              /\ Len(ChunkCalls[k].sessions) \in 1..INCREMENTAL_CHUNK_SIZE
              /\ IsContiguousSlice(ChunkCalls[k].sessions, incr.input.sessions)
              /\ ChunkCalls[k].sessions_with_mechanism = Len(ChunkCalls[k].sessions)
        /\ Len(ChunkedSessions) <= Len(incr.input.sessions)
        /\ \A i \in 1..Len(ChunkedSessions) : ChunkedSessions[i] = incr.input.sessions[i]
        /\ (MergeCalls # <<>> \/ (incr.pc = "done" /\ incr.rc = 0 /\ ~incr.dry_run))
              => ChunkedSessions = incr.input.sessions
        /\ \A c \in Range(incr.calls) : c.kind # "single"
        /\ ChunkCallFailed =>
              /\ MergeCalls = <<>>
              /\ <<"result">> \notin incr.files
              /\ incr.pc = "done"
              /\ incr.rc = 1

\* 49 session items: three chunks of 24, 24 and 1, then the merge
C28_Witness ==
    /\ Len(incr.input.sessions) = 2 * INCREMENTAL_CHUNK_SIZE + 1
    /\ Len(ChunkCalls) = 3
    /\ Len(ChunkCalls[3].sessions) = 1
    /\ Len(MergeCalls) = 1
    /\ incr.rc = 0

----------------------------------------------------------------------------
(* C29: Every record that run_api writes to the results file has           *)
(* session_id and created_at equal to those of the digest that was sent to *)
(* the provider for it, and generated_by.run_id equal to the current run   *)
(* id, whatever session_id or generated_by the model output carried; so a  *)
(* backfill run creates or modifies session sidecars only for session_ids  *)
(* present in its own run bundle.                                          *)

BundleDigests(files, run_id) ==
    IF <<run_id, "session_digests.json">> \in DOMAIN files
    THEN files[<<run_id, "session_digests.json">>].sessions
    ELSE <<>>

\* the records of the results file are, in order, the records of the
\* bundle's digests whose inference did not fail
RecordsMatchDigests(files, run_id, provider, failed) ==
    LET digests == SelectSeq(BundleDigests(files, run_id), LAMBDA d :
                       d.session_id # "" /\ d.session_id \notin failed)
        records == files[ApiFile(run_id, provider, "results")].sessions
    IN /\ Len(records) = Len(digests)
       /\ \A k \in 1..Len(records) :
             /\ records[k].session_id = digests[k].session_id
             /\ records[k].created_at = digests[k].created_at
             /\ records[k].generated_by.run_id = run_id

SidecarsTouched ==
    {sid \in DOMAIN sidecars' : sid \notin DOMAIN sidecars \/ sidecars'[sid] # sidecars[sid]}

BackfillKeepsDigestIdentity ==
    LET run_id == BackfillRunId(last'.args, last'.n)
        provider == last'.args.provider
    IN /\ ApiFile(run_id, provider, "results") \in DOMAIN jobs'
            => RecordsMatchDigests(jobs', run_id, provider, last'.failed)
       /\ SidecarsTouched \subseteq
            {BundleDigests(jobs', run_id)[i].session_id :
                i \in 1..Len(BundleDigests(jobs', run_id))}

C29_RecordsCarryDigestIdentity == [][BackfillKeepsDigestIdentity]_vars

\* the provider answered for s1 with another session's identity and the
\* run wrote the sidecar of s1
C29_Witness ==
    /\ last.cmd = "backfill"
    /\ answer["s1"] = "foreign"
    /\ "s1" \in last.targets
    /\ sidecars["s1"] # NoFile
    /\ sidecars["s1"].session_id = "s1"
    /\ sidecars["s1"].generated_by.run_id = BackfillRunId(last.args, last.n)

(* C30: With --limit N > 0 and without --force-refresh, backfill applies   *)
(* the limit before the needs-backfill check: only the N conversations     *)
(* with the greatest created_at in the window are candidates; when those N *)
(* all have valid, good-quality sidecars the run selects no target, writes *)
(* no run bundle and exits 0 even if older conversations of the window     *)
(* lack a sidecar, so repeating the run on unchanged data never backfills  *)
(* them.                                                                   *)

\* the session ids of the n conversations of the window created last
NewestInWindow(window, n) ==
    LET since == ParseWindowToSince(window)
        in_window == {c \in Range(Conversations) :
                        c.created_at >= since /\ c.created_at <= Today}
    IN {c.session_id : c \in {d \in in_window :
            Cardinality({e \in in_window : e.created_at > d.created_at}) < n}}

HasGoodSidecar(session_id) ==
    /\ sidecars[session_id] # NoFile
    /\ ValidateSessionMechanism(sidecars[session_id]) = <<>>
    /\ SessionHasMechanismSignal(sidecars[session_id])

LimitedRunTaken ==
    /\ now' = now + 1
    /\ last'.cmd = "backfill"
    /\ last'.args.limit > 0
    /\ ~last'.args.force_refresh

LimitComesFirst ==
    LimitedRunTaken =>
        LET candidates == NewestInWindow(last'.args.window, last'.args.limit) IN
            /\ last'.targets \subseteq candidates
            /\ last'.targets = {sid \in candidates : ~HasGoodSidecar(sid)}
            /\ (\A sid \in candidates : HasGoodSidecar(sid))
                  => /\ last'.targets = {}
                     /\ jobs' = jobs
                     /\ sidecars' = sidecars
                     /\ last'.rc = 0

C30_LimitBeforeNeedsBackfill == [][LimitComesFirst]_vars

\* the second run with --limit 1 found the newest session done and left the
\* older one without a sidecar
C30_Witness ==
    /\ last.cmd = "backfill"
    /\ last.n = 2
    /\ last.args.limit = 1
    /\ ~last.args.force_refresh
    /\ last.targets = {}
    /\ last.rc = 0
    /\ sidecars["s1"] # NoFile
    /\ sidecars["s2"] = NoFile
    /\ \A path \in DOMAIN jobs : path[1] # BackfillRunId(last.args, last.n)

====
